---- MODULE Spec2Model ----
(***************************************************************************)
(* Identity and access control of the tutorial web applications:           *)
(*   - the /login rate limiter of Unit 1/5.5 Code/server.js                *)
(*   - the course linker (linkCourse, join) of the user/course controllers *)
(*   - the bearer-token guard (apiAuthenticate, verifyJWT) of Lesson-28    *)
(* Each subsystem has its own specification over the shared variables.     *)
(***************************************************************************)
EXTENDS Integers, Sequences, FiniteSets, TLC

VARIABLES
  now,        \* Date.now(), milliseconds since the process started
  ipHits,     \* server.js ipHits: ip -> {count, start} or Absent
  nextSweep,  \* due time of the next setInterval callback
  rlLast,     \* the response to the latest request of server.js
  noSweep,    \* ipHits of the same request sequence when the sweep never runs
  noSweepLast,\* the response to the latest request in that run
  winFirst,   \* per ip: time of the latest request that found no entry
  winN,       \* per ip: number of /login requests since winFirst (inclusive)
  reqTotal,   \* per ip: number of /login requests sent so far
  users,      \* User collection: _id -> document or Absent
  courseDocs, \* Course collection: the _ids of the stored courses
  subscribers, \* Subscriber collection: the emails of the stored subscribers
  h,          \* the linkCourse invocations: handler -> its position and locals
  peak,       \* the largest number of linkCourse invocations awaiting the store at once
  atCall,     \* per tracked invocation: did both ids resolve when it was called
  env,        \* process.env: JWT_SECRET and JWT_EXPIRES_IN
  wire,       \* the tokens apiAuthenticate has handed to clients
  authLast,   \* the latest response of apiAuthenticate
  api,        \* the latest request through verifyJWT -> join -> respondJSON
  session,    \* req.session of the browser: the principals bound to it
  web,        \* the latest response of the login, logout and guarded routes
  accounts,   \* User collection of the bcrypt model: _id -> document or Absent
  acct,       \* the latest response of createUser / updateUser
  catalog,    \* the Course documents createCourse has stored, in order
  cc,         \* the createCourse invocations: request -> its position and locals
  modal       \* the courses modal script of a browser page

rlVars == <<ipHits, nextSweep, rlLast, noSweep, noSweepLast, winFirst, winN, reqTotal>>
dbVars == <<users, courseDocs, subscribers>>
linkVars == <<h, peak, atCall>>
apiVars == <<env, wire, authLast, api>>
webVars == <<session, web>>
acctVars == <<accounts, acct>>
courseVars == <<catalog, cc>>
modalVars == <<modal>>

vars == <<now, rlVars, dbVars, linkVars, apiVars, webVars, acctVars, courseVars, modalVars>>

\* what the actions of one subsystem leave alone
offRL == <<dbVars, linkVars, apiVars, webVars, acctVars, courseVars, modalVars>>
offLink == <<now, rlVars, apiVars, webVars, acctVars, courseVars, modalVars>>
offDb == <<now, rlVars, linkVars, apiVars, webVars, acctVars, courseVars, modalVars>>
offApi == <<rlVars, linkVars, webVars, acctVars, courseVars, modalVars>>
offWeb == <<now, rlVars, linkVars, apiVars, acctVars, courseVars, modalVars>>
offCourse == <<now, rlVars, dbVars, linkVars, apiVars, webVars, acctVars, modalVars>>
offModal == <<now, rlVars, dbVars, linkVars, apiVars, webVars, acctVars, courseVars>>
offAcct == <<now, rlVars, dbVars, linkVars, apiVars, webVars, courseVars, modalVars>>

\* verifyJWT's next() runs join in the same turn: nothing else runs in between
ChainIdle == api.stage # "verified"

Absent == [absent |-> TRUE]
None == [none |-> TRUE]

(***************************************************************************)
(* Rate limiter: Unit 1/5.5 Code/server.js                                 *)
(***************************************************************************)
WINDOW_MS == 15 * 60 * 1000
MAX_HITS == 100

TOO_MANY_REQUESTS == 429
OK == 200
NOT_FOUND == 404

\* bounds of the rate-limiter model
HalfWindow == WINDOW_MS \div 2
MaxTicks == 4
MaxOver == 2
MaxReq == MAX_HITS + MaxOver
MaxOtherReq == 1

IPs == {"ipA", "ipB"}
Urls == {"/login", "/health", "/other"}

ReqBudget(ip) == IF ip = "ipA" THEN MaxReq ELSE MaxOtherReq

\* lines 38-48: the new value of the ip's entry and whether the request is rejected
RateLimitMut(hits, ip, t) ==
  IF hits[ip] = Absent
    THEN [entry |-> [count |-> 1, start |-> t], limited |-> FALSE]
    ELSE LET c == hits[ip].count + 1
         IN [entry |-> [count |-> c, start |-> hits[ip].start],
             limited |-> (c >= MAX_HITS /\ t - hits[ip].start < WINDOW_MS)]

RateLimit(hits, ip, t) ==
  IF hits[ip] = Absent
    THEN [entry |-> [count |-> 1, start |-> t], limited |-> FALSE]
    ELSE LET c == hits[ip].count + 1
         IN [entry |-> [count |-> c, start |-> hits[ip].start],
             limited |-> (c > MAX_HITS /\ t - hits[ip].start < WINDOW_MS)]

\* lines 31-69: the status of the response to a request, given the limiter's verdict
Respond(url, limited) ==
  IF url = "/login" /\ limited THEN TOO_MANY_REQUESTS
  ELSE IF url = "/health" THEN OK
  ELSE IF url = "/" THEN OK
  ELSE NOT_FOUND

\* lines 18-22: the periodic sweep's effect on a table
Sweep(hits, t) ==
  [ip \in IPs |-> IF hits[ip] # Absent /\ t - hits[ip].start > WINDOW_MS
                    THEN Absent ELSE hits[ip]]

RLInit ==
  /\ ipHits = [ip \in IPs |-> Absent]
  /\ nextSweep = WINDOW_MS
  /\ rlLast = None
  /\ noSweep = [ip \in IPs |-> Absent]
  /\ noSweepLast = None
  /\ winFirst = [ip \in IPs |-> 0]
  /\ winN = [ip \in IPs |-> 0]
  /\ reqTotal = [ip \in IPs |-> 0]

\* time passes; a due setInterval callback runs before the clock moves on
Tick ==
  /\ now < MaxTicks * HalfWindow
  /\ now < nextSweep
  /\ now' = now + HalfWindow
  /\ UNCHANGED <<ipHits, nextSweep, rlLast, noSweep, noSweepLast, winFirst, winN, reqTotal>>
  /\ UNCHANGED offRL

\* http.createServer callback, lines 31-75
HandleRequest(ip, url) ==
  /\ url = "/login" => reqTotal[ip] < ReqBudget(ip)
  /\ LET r == RateLimit(ipHits, ip, now)
         s == RateLimit(noSweep, ip, now)
     IN IF url = "/login"
          THEN /\ ipHits' = [ipHits EXCEPT ![ip] = r.entry]
               /\ rlLast' = [ip |-> ip, url |-> url, status |-> Respond(url, r.limited)]
               /\ noSweep' = [noSweep EXCEPT ![ip] = s.entry]
               /\ noSweepLast' = [ip |-> ip, url |-> url, status |-> Respond(url, s.limited)]
               /\ winFirst' = [winFirst EXCEPT ![ip] = IF ipHits[ip] = Absent THEN now ELSE @]
               /\ winN' = [winN EXCEPT ![ip] = IF ipHits[ip] = Absent THEN 1 ELSE @ + 1]
               /\ reqTotal' = [reqTotal EXCEPT ![ip] = @ + 1]
          ELSE /\ rlLast' = [ip |-> ip, url |-> url, status |-> Respond(url, FALSE)]
               /\ noSweepLast' = [ip |-> ip, url |-> url, status |-> Respond(url, FALSE)]
               /\ UNCHANGED <<ipHits, noSweep, winFirst, winN, reqTotal>>
  /\ UNCHANGED <<now, nextSweep, offRL>>

\* setInterval callback, lines 18-22; the timer re-arms WINDOW_MS later
SweepTimer ==
  /\ now >= nextSweep
  /\ ipHits' = Sweep(ipHits, now)
  /\ nextSweep' = nextSweep + WINDOW_MS
  /\ UNCHANGED <<now, rlLast, noSweep, noSweepLast, winFirst, winN, reqTotal>>
  /\ UNCHANGED offRL

RLNext ==
  \/ Tick
  \/ \E ip \in IPs, url \in Urls : HandleRequest(ip, url)
  \/ SweepTimer

(***************************************************************************)
(* The document store and the course linker                                *)
(***************************************************************************)
UserIds == {"u1", "u2"}
CourseIds == {"c1", "c2"}
InvalidId == "bad"
Handlers == {1, 2, 3}

\* mongoose.isValidObjectId
isValidObjectId(x) == x # InvalidId

\* the number of occurrences of c in the array s
RECURSIVE Occ(_, _)
Occ(c, s) == IF s = <<>> THEN 0 ELSE (IF Head(s) = c THEN 1 ELSE 0) + Occ(c, Tail(s))

\* MongoDB $addToSet on an array field
AddToSetMut(s, c) == IF Len(s) > 0 /\ s[Len(s)] = c THEN s ELSE Append(s, c)

AddToSet(s, c) == IF Occ(c, s) > 0 THEN s ELSE Append(s, c)

\* User.findByIdAndUpdate(id, { $addToSet: { courses: c } }): one atomic store operation
FindByIdAndUpdateMut(us, id, c) ==
  IF id \notin DOMAIN us \/ us[id] = Absent THEN us
  ELSE [us EXCEPT ![id].courses = Append(@, c)]

FindByIdAndUpdate(us, id, c) ==
  IF id \notin DOMAIN us \/ us[id] = Absent THEN us
  ELSE [us EXCEPT ![id].courses = AddToSet(@, c)]

Idle == [pc |-> "idle"]

\* the emails that have a Subscriber document
SubscriberEmails == {"ada@example.com"}

\* the store holds the given users, none of them linked yet, and every course
DBInit(registered) ==
  /\ users = [id \in UserIds |-> IF id \in registered THEN [courses |-> <<>>] ELSE Absent]
  /\ courseDocs = CourseIds
  /\ subscribers = SubscriberEmails

LinkInit ==
  /\ h = [p \in Handlers |-> Idle]
  /\ peak = 0
  /\ atCall = [p \in Handlers |-> None]

\* which of the two ids of a call resolve to a stored document
Resolves(id, courseId) ==
  [user |-> (id \in UserIds /\ users[id] # Absent), course |-> (courseId \in courseDocs)]

InFlight(hh) == Cardinality({p \in Handlers : hh[p].pc = "finding"})

Finish(p, hh, flash, modified) ==
  [hh EXCEPT ![p].pc = "done", ![p].flash = flash, ![p].redirect = "/users",
             ![p].modified = modified]

\* linkCourse of Lesson-28 (and part_014), up to the await of the two finds
LinkCall28(p, id, courseId, track) ==
  /\ h[p].pc = "idle"
  /\ \A q \in Handlers : q < p => h[q].pc # "idle"
  /\ LET call == [pc |-> "finding", variant |-> 28, id |-> id, courseId |-> courseId,
                  userRes |-> "pending", courseRes |-> "pending",
                  flash |-> "", redirect |-> "", modified |-> FALSE]
     IN IF ~isValidObjectId(id) \/ ~isValidObjectId(courseId)
          THEN h' = Finish(p, [h EXCEPT ![p] = call], "Invalid id.", FALSE)
          ELSE h' = [h EXCEPT ![p] = call]
  /\ peak' = IF InFlight(h') > peak THEN InFlight(h') ELSE peak
  /\ atCall' = IF track THEN [atCall EXCEPT ![p] = Resolves(id, courseId)] ELSE atCall
  /\ UNCHANGED <<offLink, dbVars>>

\* User.findById(id).select("_id").lean()
LinkFindUser(p) ==
  /\ h[p].pc = "finding" /\ h[p].variant = 28 /\ h[p].userRes = "pending"
  /\ h' = [h EXCEPT ![p].userRes =
             IF h[p].id \in UserIds /\ users[h[p].id] # Absent THEN "found" ELSE "null"]
  /\ UNCHANGED <<offLink, dbVars, peak, atCall>>

\* Course.findById(courseId).select("_id").lean()
LinkFindCourse(p) ==
  /\ h[p].pc = "finding" /\ h[p].courseRes = "pending"
  /\ h' = [h EXCEPT ![p].courseRes =
             IF h[p].courseId \in courseDocs THEN "found" ELSE "null"]
  /\ UNCHANGED <<offLink, dbVars, peak, atCall>>

\* linkCourse of Lesson-28 after Promise.all resolved: the checks, the update, the flash
LinkResolve28(p) ==
  /\ h[p].pc = "finding" /\ h[p].variant = 28
  /\ h[p].userRes # "pending" /\ h[p].courseRes # "pending"
  /\ IF h[p].userRes = "null"
       THEN /\ h' = Finish(p, h, "User not found.", FALSE)
            /\ UNCHANGED users
     ELSE IF h[p].courseRes = "null"
       THEN /\ h' = Finish(p, h, "Course not found.", FALSE)
            /\ UNCHANGED users
     ELSE /\ users' = FindByIdAndUpdate(users, h[p].id, h[p].courseId)
          /\ h' = Finish(p, h, "Course linked.", users' # users)
  /\ UNCHANGED <<offLink, courseDocs, subscribers, peak, atCall>>

\* linkCourse of Lesson-23, up to the await of Course.findById
LinkCall23(p, id, courseId, track) ==
  /\ h[p].pc = "idle"
  /\ \A q \in Handlers : q < p => h[q].pc # "idle"
  /\ LET call == [pc |-> "finding", variant |-> 23, id |-> id, courseId |-> courseId,
                  userRes |-> "unused", courseRes |-> "pending",
                  flash |-> "", redirect |-> "", modified |-> FALSE]
     IN IF ~isValidObjectId(courseId)
          THEN h' = Finish(p, [h EXCEPT ![p] = call], "Invalid course id.", FALSE)
          ELSE h' = [h EXCEPT ![p] = call]
  /\ peak' = IF InFlight(h') > peak THEN InFlight(h') ELSE peak
  /\ atCall' = IF track THEN [atCall EXCEPT ![p] = Resolves(id, courseId)] ELSE atCall
  /\ UNCHANGED <<offLink, dbVars>>

\* linkCourse of Lesson-23 after Course.findById resolved; a malformed user id
\* makes findByIdAndUpdate reject (CastError), which the catch block reports
LinkResolve23(p) ==
  /\ h[p].pc = "finding" /\ h[p].variant = 23
  /\ h[p].courseRes # "pending"
  /\ IF h[p].courseRes = "null"
       THEN /\ h' = Finish(p, h, "Course not found.", FALSE)
            /\ UNCHANGED users
     ELSE IF ~isValidObjectId(h[p].id)
       THEN /\ h' = Finish(p, h, "Failed to link course.", FALSE)
            /\ UNCHANGED users
     ELSE /\ users' = FindByIdAndUpdate(users, h[p].id, h[p].courseId)
          /\ h' = Finish(p, h, "Course linked.", users' # users)
  /\ UNCHANGED <<offLink, courseDocs, subscribers, peak, atCall>>

\* deleteUser: User.findByIdAndDelete(req.params.id)
DeleteUser(id) ==
  /\ ChainIdle
  /\ users[id] # Absent
  /\ users' = [users EXCEPT ![id] = Absent]
  /\ UNCHANGED <<offDb, courseDocs, subscribers>>

\* deleteCourse: Course.findByIdAndDelete(req.params.id)
DeleteCourse(id) ==
  /\ ChainIdle
  /\ id \in courseDocs
  /\ courseDocs' = courseDocs \ {id}
  /\ UNCHANGED <<offDb, users, subscribers>>

LinkNext ==
  \/ \E p \in Handlers, id \in UserIds \cup {InvalidId}, c \in CourseIds \cup {InvalidId} :
       LinkCall28(p, id, c, FALSE)
  \/ \E p \in Handlers : LinkFindUser(p)
  \/ \E p \in Handlers : LinkFindCourse(p)
  \/ \E p \in Handlers : LinkResolve28(p)
  \/ \E id \in UserIds : DeleteUser(id)
  \/ \E id \in CourseIds : DeleteCourse(id)

\* both linkCourse versions, two invocations, with the resolution of the ids at
\* the call recorded
TrackedHandlers == {1, 2}

LinkTrackedNext ==
  \/ \E p \in TrackedHandlers, id \in UserIds \cup {InvalidId}, c \in CourseIds \cup {InvalidId} :
       LinkCall28(p, id, c, TRUE)
  \/ \E p \in TrackedHandlers : LinkFindUser(p)
  \/ \E p \in TrackedHandlers : LinkFindCourse(p)
  \/ \E p \in TrackedHandlers : LinkResolve28(p)
  \/ \E p \in TrackedHandlers, id \in UserIds \cup {InvalidId}, c \in CourseIds \cup {InvalidId} :
       LinkCall23(p, id, c, TRUE)
  \/ \E p \in TrackedHandlers : LinkResolve23(p)
  \/ \E id \in UserIds : DeleteUser(id)
  \/ \E id \in CourseIds : DeleteCourse(id)

(***************************************************************************)
(* Bearer tokens: apiAuthenticate, verifyJWT and the join chain            *)
(***************************************************************************)
UNAUTHORIZED == 401
BAD_REQUEST == 400
INTERNAL_SERVER_ERROR == 500

DEV_SECRET == "dev_secret_change_me"
Unset == "<unset>"

\* bounds of the token model
HalfDayMs == 12 * 60 * 60 * 1000
MaxApiTicks == 2
MaxTokens == 2

DefaultEnv == [JWT_SECRET |-> Unset, JWT_EXPIRES_IN |-> Unset]
Envs == {DefaultEnv, [JWT_SECRET |-> "prod_secret", JWT_EXPIRES_IN |-> "12h"]}

\* the registered data of the user ids
EmailOf(id) == IF id = "u1" THEN "ada@example.com" ELSE "bob@example.com"
PasswordOf(id) == IF id = "u1" THEN "secret123" ELSE "hunter42"
NameOf(id) == IF id = "u1" THEN [first |-> "Ada", last |-> "Lovelace"]
              ELSE [first |-> "Bob", last |-> "Stone"]

\* a document's _id is an ObjectId; String(_id) is its hex string
ObjectId(id) == [oid |-> id]
StringOf(oid) == oid.oid

\* the User document as the handlers read it
UserDoc(us, id) ==
  [_id |-> ObjectId(id), name |-> NameOf(id), email |-> EmailOf(id),
   courses |-> us[id].courses]

\* a raw text input: its letters, whether some are upper case, whether it is padded
Raw(text, upper, padded) == [text |-> text, upper |-> upper, padded |-> padded]
\* String(x || "").trim().toLowerCase()
Normalize(raw) == Raw(raw.text, FALSE, FALSE)
Stored(text) == Raw(text, FALSE, FALSE)

EmailInputs ==
  {Raw("ada@example.com", FALSE, FALSE), Raw("ada@example.com", TRUE, TRUE),
   Raw("bob@example.com", FALSE, FALSE), Raw("eve@example.com", FALSE, FALSE),
   Raw("", FALSE, TRUE)}
PasswordInputs == {"secret123", "secret124", ""}

\* User.findOne({ email }): the ids of the stored users with that email
FindOneByEmail(us, email) ==
  {id \in UserIds : us[id] # Absent /\ Stored(EmailOf(id)) = email}

\* the result { user, error } that passport-local-mongoose's authenticate resolves to
PlmResult(id, password) ==
  IF password = PasswordOf(id) THEN [user |-> id, error |-> FALSE]
  ELSE [user |-> id, error |-> TRUE]

\* user.authenticate(password), line 324: called with no callback and not awaited,
\* it returns the Promise of the result, not the result
Authenticate(id, password) == [promise |-> PlmResult(id, password)]

\* authResult?.error, line 327: a property the value does not have reads as undefined
ErrorOf(authResult) ==
  IF "error" \in DOMAIN authResult THEN authResult.error ELSE FALSE

Secret(e) == IF e.JWT_SECRET = Unset THEN DEV_SECRET ELSE e.JWT_SECRET
ExpiresIn(e) == IF e.JWT_EXPIRES_IN = Unset THEN "1d" ELSE e.JWT_EXPIRES_IN

\* the seconds of a time span string
SpanSeconds(span) == IF span = "1d" THEN 24 * 60 * 60 ELSE 12 * 60 * 60

\* jwt.sign(payload, secret, { expiresIn }): the signature covers the whole body
JwtSign(payload, secret, span, t) ==
  LET iat == t \div 1000
      body == [sub |-> payload.sub, email |-> payload.email,
               iat |-> iat, exp |-> iat + SpanSeconds(span)]
  IN [kind |-> "jwt", body |-> body, sig |-> [key |-> secret, body |-> body]]

\* the text of a header value: a sequence of spaces, words and tokens
Sp == [kind |-> "sp"]
Word(w) == [kind |-> "word", text |-> w]

\* jwt.verify(token, secret): the payload, or the error it throws
JwtVerifyMut(text, secret, t) ==
  IF Len(text) # 1 \/ text[1].kind # "jwt"
    THEN [ok |-> FALSE, error |-> "jwt malformed"]
  ELSE IF text[1].sig # [key |-> secret, body |-> text[1].body]
    THEN [ok |-> FALSE, error |-> "invalid signature"]
  ELSE [ok |-> TRUE, payload |-> text[1].body]

JwtVerify(text, secret, t) ==
  IF Len(text) # 1 \/ text[1].kind # "jwt"
    THEN [ok |-> FALSE, error |-> "jwt malformed"]
  ELSE IF text[1].sig # [key |-> secret, body |-> text[1].body]
    THEN [ok |-> FALSE, error |-> "invalid signature"]
  ELSE IF t \div 1000 >= text[1].body.exp
    THEN [ok |-> FALSE, error |-> "jwt expired"]
  ELSE [ok |-> TRUE, payload |-> text[1].body]

\* String.prototype.trim
RECURSIVE TrimLeft(_)
TrimLeft(s) == IF s # <<>> /\ Head(s) = Sp THEN TrimLeft(Tail(s)) ELSE s
RECURSIVE TrimRight(_)
TrimRight(s) ==
  IF s # <<>> /\ s[Len(s)] = Sp THEN TrimRight(SubSeq(s, 1, Len(s) - 1)) ELSE s
Trim(s) == TrimRight(TrimLeft(s))

\* String.prototype.split(" ")
RECURSIVE Split(_)
Split(s) ==
  IF \A i \in 1..Len(s) : s[i] # Sp THEN <<s>>
  ELSE LET i == CHOOSE j \in 1..Len(s) : s[j] = Sp /\ \A k \in 1..(j - 1) : s[k] # Sp
       IN <<SubSeq(s, 1, i - 1)>> \o Split(SubSeq(s, i + 1, Len(s)))

\* getBearerToken, lines 31-36; <<>> stands for null
getBearerToken(header) ==
  LET auth == Trim(header)
      parts == Split(auth)
      type == parts[1]
      rawToken == IF Len(parts) >= 2 THEN parts[2] ELSE <<>>
  IN IF type # <<Word("Bearer")>> \/ rawToken = <<>> THEN <<>> ELSE Trim(rawToken)

Json401(error) ==
  [status |-> UNAUTHORIZED, body |-> [success |-> FALSE, error |-> error]]

\* verifyJWT, lines 356-381: the calls of next(), the response it sends, req.apiUser
verifyJWTMut(header, e, t) ==
  LET jwtToken == getBearerToken(header)
  IN IF jwtToken = <<>>
       THEN [next |-> 0, resp |-> Json401("Missing Bearer token."), apiUser |-> None]
     ELSE LET v == JwtVerify(jwtToken, Secret(e), t)
          IN IF v.ok /\ v.payload.sub \in UserIds /\ users[v.payload.sub] # Absent
               THEN [next |-> 1, resp |-> None,
                     apiUser |-> [_id |-> v.payload.sub, email |-> v.payload.email]]
               ELSE [next |-> 0, resp |-> Json401("Invalid or expired token."),
                     apiUser |-> None]

verifyJWT(header, e, t) ==
  LET jwtToken == getBearerToken(header)
  IN IF jwtToken = <<>>
       THEN [next |-> 0, resp |-> Json401("Missing Bearer token."), apiUser |-> None]
     ELSE LET v == JwtVerify(jwtToken, Secret(e), t)
          IN IF v.ok
               THEN [next |-> 1, resp |-> None,
                     apiUser |-> [_id |-> v.payload.sub, email |-> v.payload.email]]
               ELSE [next |-> 0, resp |-> Json401("Invalid or expired token."),
                     apiUser |-> None]

\* the claims apiAuthenticate signs, line 339
TokenPayloadMut(user) == [sub |-> user.email, email |-> user.email]

TokenPayload(user) == [sub |-> StringOf(user._id), email |-> user.email]

\* buildApiUser, lines 39-44
buildApiUser(userDoc) ==
  [id |-> StringOf(userDoc._id), first |-> userDoc.name.first,
   last |-> userDoc.name.last, email |-> userDoc.email]

\* errorJSON of the course controller
errorJSON(message) ==
  [status |-> INTERNAL_SERVER_ERROR,
   body |-> [status |-> INTERNAL_SERVER_ERROR, message |-> message]]

\* respondJSON of the course controller
respondJSON(locals) == [status |-> OK, body |-> [status |-> OK, data |-> locals]]

ApiInit(envs) ==
  /\ env \in envs
  /\ wire = {}
  /\ authLast = None
  /\ api = [stage |-> "none"]

ApiTick ==
  /\ ChainIdle
  /\ now < MaxApiTicks * HalfDayMs
  /\ now' = now + HalfDayMs
  /\ UNCHANGED <<offApi, dbVars, apiVars>>

\* apiAuthenticate, lines 305-349
apiAuthenticate(emailIn, passwordIn) ==
  LET email == Normalize(emailIn)
      password == passwordIn
      found == FindOneByEmail(users, email)
  IN /\ ChainIdle
     /\ IF email.text = "" \/ password = ""
          THEN /\ authLast' = [status |-> BAD_REQUEST,
                               body |-> [success |-> FALSE,
                                         error |-> "Email and password are required."]]
               /\ UNCHANGED wire
        ELSE IF found = {}
          THEN /\ authLast' = [status |-> UNAUTHORIZED,
                               body |-> [success |-> FALSE,
                                         error |-> "Invalid email or password."]]
               /\ UNCHANGED wire
        ELSE LET id == CHOOSE u \in found : TRUE
                 user == UserDoc(users, id)
             IN IF ErrorOf(Authenticate(id, password))
                  THEN /\ authLast' = [status |-> UNAUTHORIZED,
                                       body |-> [success |-> FALSE,
                                                 error |-> "Invalid email or password."]]
                       /\ UNCHANGED wire
                  ELSE LET jwtToken == JwtSign(TokenPayload(user),
                                               Secret(env), ExpiresIn(env), now)
                       IN /\ Cardinality(wire \cup {jwtToken}) <= MaxTokens
                          /\ authLast' = [status |-> OK, uid |-> id,
                                          body |-> [success |-> TRUE, token |-> jwtToken,
                                                    user |-> buildApiUser(user)]]
                          /\ wire' = wire \cup {jwtToken}
     /\ UNCHANGED <<now, offApi, dbVars, env, api>>

\* the credentials a client can put behind a scheme: the tokens it was given, those
\* tokens with a claim changed, a token signed with a key of its own, and junk
Credentials ==
  wire
  \cup {[t EXCEPT !.body.sub = IF @ = "u1" THEN "u2" ELSE "u1"] : t \in wire}
  \cup {[t EXCEPT !.body.exp = @ + 24 * 60 * 60] : t \in wire}
  \cup {JwtSign([sub |-> "u1", email |-> EmailOf("u1")], "attacker_key", "1d", now)}
  \cup {Word("junk")}

Headers ==
  {<<>>, <<Word("Bearer")>>}
  \cup {<<Word("Bearer"), Sp, c>> : c \in Credentials}
  \cup UNION {{ <<Sp, Word("Bearer"), Sp, c, Sp>>,
                <<Word("Bearer"), Sp, Sp, c>>,
                <<Word("Bearer"), Sp, c, Sp, Word("x")>>,
                <<Word("Basic"), Sp, c>>,
                <<Word("bearer"), Sp, c>>,
                <<Word("Bearer"), c>>,
                <<c>> } : c \in wire}

\* the header a client sends with a token it holds
BearerOf(tk) == <<Word("Bearer"), Sp, tk>>

\* the :id parameters tried on the join route
JoinIds == {"c1", InvalidId}

\* req.user as passport's session support sets it: a stored user or nothing
SessionUsers == {None} \cup {[_id |-> ObjectId(id)] : id \in {u \in UserIds : users[u] # Absent}}

\* the stored User document of Lesson-28: the schema's paths and the hash and salt
\* paths the passport-local-mongoose plugin adds
StoredUser28(us, id) ==
  [_id |-> ObjectId(id), name |-> NameOf(id), email |-> EmailOf(id),
   zipCode |-> 1234, apiToken |-> [apiToken |-> id], courses |-> us[id].courses,
   hash |-> [pbkdf2 |-> [plain |-> PasswordOf(id)]], salt |-> [salt |-> id]]

\* a query's projection: the document without the paths that are not selected
Select(doc, hidden) == [f \in DOMAIN doc \ hidden |-> doc[f]]

\* findByUsername of passport-local-mongoose, which deserializeUser calls: hash and
\* salt are select: false and are read only with selectHashSaltFields
findByUsernameMut(us, id) == StoredUser28(us, id)

findByUsername(us, id) == Select(StoredUser28(us, id), {"hash", "salt"})

\* doc.toJSON() with virtuals: true
ToJSON(doc) ==
  [f \in DOMAIN doc \cup {"id", "fullName"} |->
     IF f = "id" THEN StringOf(doc._id)
     ELSE IF f = "fullName" THEN <<doc.name.first, doc.name.last>>
     ELSE doc[f]]

\* the locals middleware of the main app, lines 135-142, for a request whose
\* session passport resolved to reqUser
Locals(reqUser, us) ==
  [flashMessages |-> <<>>,
   session |-> [cookie |-> [httpOnly |-> TRUE],
                passport |-> IF reqUser = None THEN None
                             ELSE [user |-> EmailOf(StringOf(reqUser._id))]],
   loggedIn |-> (reqUser # None),
   currentUser |-> IF reqUser = None THEN None
                   ELSE ToJSON(findByUsername(us, StringOf(reqUser._id)))]

\* apiIndex, lines 138-178, with no search text: the lean Course documents
apiIndex(locals, cs) ==
  [f \in DOMAIN locals \cup {"courses", "search", "pagination"} |->
     IF f = "courses" THEN {[_id |-> ObjectId(c)] : c \in cs}
     ELSE IF f = "search" THEN ""
     ELSE IF f = "pagination"
       THEN [page |-> 1, limit |-> 25, total |-> Cardinality(cs), pages |-> 1]
     ELSE locals[f]]

\* filterUserCourses, lines 483-504
filterUserCourses(locals) ==
  IF locals.currentUser = None THEN locals
  ELSE [locals EXCEPT !.courses =
          {[_id |-> course._id,
            joined |-> Occ(StringOf(course._id), locals.currentUser.courses) > 0] :
             course \in locals.courses}]

\* join's res.locals.success = true, line 474
WithSuccess(locals) ==
  [f \in DOMAIN locals \cup {"success"} |-> IF f = "success" THEN TRUE ELSE locals[f]]

\* GET /api/courses/:id/join, first handler: verifyJWT
ApiVerifyJWT(header) ==
  /\ api.stage \in {"none", "done"}
  /\ LET vj == verifyJWT(header, env, now)
     IN api' = [stage |-> IF vj.next = 1 THEN "verified" ELSE "done",
                vj |-> vj, req |-> None, resp |-> vj.resp,
                gone |-> /\ vj.apiUser # None
                         /\ \A id \in UserIds :
                              id = vj.apiUser._id => users[id] = Absent]
  /\ UNCHANGED <<now, offApi, dbVars, env, wire, authLast>>

\* second handler, called by verifyJWT's next(): join up to its store call
ApiJoin(reqUser, courseId) ==
  /\ api.stage = "verified"
  /\ LET req == [user |-> reqUser, courseId |-> courseId,
                 cAtReq |-> (courseId \in courseDocs),
                 actedFor |-> "", modified |-> FALSE,
                 locals |-> Locals(reqUser, users)]
     IN IF reqUser = None
          THEN api' = [api EXCEPT !.stage = "done", !.req = req,
                                  !.resp = errorJSON("User must log in.")]
        ELSE IF ~isValidObjectId(courseId)
          THEN api' = [api EXCEPT !.stage = "done", !.req = req,
                                  !.resp = errorJSON("Invalid course id.")]
        ELSE api' = [api EXCEPT !.stage = "joining",
                                !.req = [req EXCEPT !.actedFor = StringOf(reqUser._id)]]
  /\ UNCHANGED <<now, offApi, dbVars, env, wire, authLast>>

\* join's User.findByIdAndUpdate resolves, then respondJSON
ApiJoinUpdate ==
  /\ api.stage = "joining"
  /\ users' = FindByIdAndUpdate(users, api.req.actedFor, api.req.courseId)
  /\ api' = [api EXCEPT !.stage = "done", !.req.modified = (users' # users),
                        !.resp = respondJSON(WithSuccess(api.req.locals))]
  /\ UNCHANGED <<now, offApi, courseDocs, subscribers, env, wire, authLast>>

\* GET /api/courses after verifyJWT's next(): apiIndex, filterUserCourses, respondJSON
ApiCourses(reqUser) ==
  /\ api.stage = "verified"
  /\ api' = [stage |-> "done", vj |-> api.vj, req |-> None,
             resp |-> respondJSON(filterUserCourses(
                        apiIndex(Locals(reqUser, users), courseDocs))),
             gone |-> api.gone]
  /\ UNCHANGED <<now, offApi, dbVars, env, wire, authLast>>

ApiNext ==
  \/ ApiTick
  \/ \E e \in EmailInputs, pw \in PasswordInputs : apiAuthenticate(e, pw)
  \/ \E hd \in Headers : ApiVerifyJWT(hd)
  \/ \E u \in SessionUsers, c \in JoinIds : ApiJoin(u, c)
  \/ ApiJoinUpdate
  \/ \E id \in CourseIds : DeleteCourse(id)

\* the endpoints that answer in JSON, for clients that hold a token and may also
\* hold a session
JsonNext ==
  \/ ApiTick
  \/ \E e \in EmailInputs, pw \in PasswordInputs : apiAuthenticate(e, pw)
  \/ \E tk \in wire : ApiVerifyJWT(BearerOf(tk))
  \/ ApiVerifyJWT(<<>>)
  \/ \E u \in SessionUsers, c \in JoinIds : ApiJoin(u, c)
  \/ ApiJoinUpdate
  \/ \E u \in SessionUsers : ApiCourses(u)

(***************************************************************************)
(* Sessions: the login handlers, logout and the session guards             *)
(***************************************************************************)
FOUND == 302

Redirect(path) == [status |-> FOUND, location |-> path]
Flash(type, text) == [type |-> type, text |-> text]

\* a text value: a plaintext, or the string bcrypt.hash makes of a text
Plain(s) == [plain |-> s]
Hash(x) == [hash |-> x]

\* bcrypt.compare(inputPassword, this.password)
passwordComparison(inputPassword, stored) == stored = Hash(inputPassword)

\* a session nobody is bound to
NoSession == [userId |-> None, passport |-> None]

\* the stored document of the bcrypt model for a registered id
AccountDoc(id) ==
  [name |-> NameOf(id), email |-> EmailOf(id), zipCode |-> "12345",
   password |-> Hash(Plain(PasswordOf(id))), subscriberAccount |-> None]

WebInit ==
  /\ session = NoSession
  /\ web = None

AcctInit(registered) ==
  /\ accounts = [id \in UserIds |-> IF id \in registered THEN AccountDoc(id) ELSE Absent]
  /\ acct = None

\* passport's deserializeUser: the stored users with the serialized email
Deserialize(sess, us) ==
  IF sess.passport = None THEN {} ELSE FindOneByEmail(us, Stored(sess.passport.user))

\* req.isAuthenticated() of passport: the session names a user the store still holds
IsAuthenticated(sess, us) == Deserialize(sess, us) # {}

\* the request as a guard reads it: is req.isAuthenticated there, and what it returns
GuardReq(passportOn, sess, us) ==
  [has |-> passportOn, result |-> passportOn /\ IsAuthenticated(sess, us)]

\* ensureAuth, routes/users.js lines 13-17
ensureAuthMut(req) ==
  IF req.has => req.result
    THEN [next |-> 1, flash |-> None, resp |-> None]
    ELSE [next |-> 0, flash |-> Flash("error", "Please log in first."),
          resp |-> Redirect("/users/login")]

ensureAuth(req) ==
  IF req.has /\ req.result
    THEN [next |-> 1, flash |-> None, resp |-> None]
    ELSE [next |-> 0, flash |-> Flash("error", "Please log in first."),
          resp |-> Redirect("/users/login")]

\* ensureAuthenticated, middlewares/auth.js lines 3-9
ensureAuthenticated(req) ==
  IF req.has /\ req.result
    THEN [next |-> 1, flash |-> None, resp |-> None]
    ELSE [next |-> 0, flash |-> Flash("error", "Please log in first."),
          resp |-> Redirect("/users/login")]

\* ensureGuest, routes/users.js lines 19-25
ensureGuest(req) ==
  IF req.has /\ req.result
    THEN [next |-> 0, flash |-> Flash("info", "You are already logged in."),
          resp |-> Redirect("/")]
    ELSE [next |-> 1, flash |-> None, resp |-> None]

\* the messages of passport-local and passport-local-mongoose
MissingCredentials == "Missing credentials"
IncorrectUsernameError == "Password or username is incorrect"
IncorrectPasswordError == "Password or username is incorrect"

\* POST /users/login of Lesson-28: ensureGuest, the validators' trim, authenticate
authenticate28(us, sess, emailIn, passwordIn, storeOk) ==
  LET guest == ensureGuest(GuardReq(TRUE, sess, us))
      email == Normalize(emailIn)
      found == FindOneByEmail(us, email)
      fail(message) == [flash |-> Flash("error", message),
                        resp |-> Redirect("/users/login"), session |-> sess]
  IN IF guest.next = 0
       THEN [flash |-> guest.flash, resp |-> guest.resp, session |-> sess]
     ELSE IF email.text = "" \/ passwordIn = ""
       THEN fail(MissingCredentials)
     ELSE IF ~storeOk
       THEN [flash |-> None, resp |-> [status |-> INTERNAL_SERVER_ERROR],
             session |-> sess]
     ELSE IF found = {}
       THEN fail(IncorrectUsernameError)
     ELSE LET id == CHOOSE u \in found : TRUE
          IN IF PlmResult(id, passwordIn).error
               THEN fail(IncorrectPasswordError)
               ELSE [flash |-> Flash("success", "Welcome back!"),
                     resp |-> Redirect("/dashboard"),
                     session |-> [userId |-> None, passport |-> [user |-> EmailOf(id)]]]

\* User.findOne({ email }) on the bcrypt model
FindAccountByEmail(ac, email) ==
  {id \in UserIds : ac[id] # Absent /\ Stored(ac[id].email) = email}

\* authenticate of Lesson-23 (and Lesson-22), lines 315-354
authenticate23Mut(ac, sess, emailIn, passwordIn, storeOk) ==
  LET email == Normalize(emailIn)
      found == FindAccountByEmail(ac, email)
      fail(message) == [flash |-> Flash("error", message),
                        resp |-> Redirect("/users/login"), session |-> sess]
  IN IF email.text = "" \/ passwordIn = ""
       THEN fail("Email and password are required.")
     ELSE IF ~storeOk
       THEN fail("Login failed due to server error.")
     ELSE IF found = {}
       THEN fail("Account not found.")
     ELSE LET id == CHOOSE u \in found : TRUE
              bound == [sess EXCEPT !.userId = ObjectId(id)]
          IN IF ~passwordComparison(Plain(passwordIn), ac[id].password)
               THEN [fail("Incorrect password.") EXCEPT !.session = bound]
               ELSE [flash |-> Flash("success", "Welcome back"),
                     resp |-> Redirect("/users"), session |-> bound]

authenticate23(ac, sess, emailIn, passwordIn, storeOk) ==
  LET email == Normalize(emailIn)
      found == FindAccountByEmail(ac, email)
      fail(message) == [flash |-> Flash("error", message),
                        resp |-> Redirect("/users/login"), session |-> sess]
  IN IF email.text = "" \/ passwordIn = ""
       THEN fail("Email and password are required.")
     ELSE IF ~storeOk
       THEN fail("Login failed due to server error.")
     ELSE IF found = {}
       THEN fail("Account not found.")
     ELSE LET id == CHOOSE u \in found : TRUE
          IN IF ~passwordComparison(Plain(passwordIn), ac[id].password)
               THEN fail("Incorrect password.")
               ELSE [flash |-> Flash("success", "Welcome back"),
                     resp |-> Redirect("/users"),
                     session |-> [sess EXCEPT !.userId = ObjectId(id)]]

\* what a login attempt is, whatever the handler makes of it: are both fields
\* there, is there an account for the email, is the password the account's
Attempt(exists, emailIn, passwordIn, storeOk) ==
  [complete |-> (emailIn.text # "" /\ passwordIn # ""),
   exists |-> exists,
   verified |-> (exists /\ \E id \in UserIds :
                             EmailOf(id) = emailIn.text /\ PasswordOf(id) = passwordIn),
   storeOk |-> storeOk]

Login28(emailIn, passwordIn, storeOk) ==
  LET r == authenticate28(users, session, emailIn, passwordIn, storeOk)
      exists == \E id \in UserIds : users[id] # Absent /\ EmailOf(id) = emailIn.text
  IN /\ session' = r.session
     /\ web' = [handler |-> "authenticate", version |-> 28,
                guest |-> ~IsAuthenticated(session, users),
                attempt |-> Attempt(exists, emailIn, passwordIn, storeOk),
                flash |-> r.flash, resp |-> r.resp]
     /\ UNCHANGED <<offWeb, dbVars>>

Login23(emailIn, passwordIn, storeOk) ==
  LET r == authenticate23(accounts, session, emailIn, passwordIn, storeOk)
      exists == \E id \in UserIds : accounts[id] # Absent /\ EmailOf(id) = emailIn.text
  IN /\ session' = r.session
     /\ web' = [handler |-> "authenticate", version |-> 23,
                guest |-> (session.userId = None),
                attempt |-> Attempt(exists, emailIn, passwordIn, storeOk),
                flash |-> r.flash, resp |-> r.resp]
     /\ UNCHANGED <<offWeb, dbVars>>

\* the guarded routes of routes/users.js, lines 70-138, and of the routers that
\* import ensureAuthenticated
Routes ==
  { [path |-> "GET /users/logout", guard |-> "ensureAuth", handler |-> "logout"],
    [path |-> "GET /users", guard |-> "ensureAuth", handler |-> "showUsers"],
    [path |-> "GET /users/:id/edit", guard |-> "ensureAuth", handler |-> "showEditUserForm"],
    [path |-> "PUT /users/:id", guard |-> "ensureAuth", handler |-> "updateUser"],
    [path |-> "POST /users/:id/delete", guard |-> "ensureAuth", handler |-> "deleteUser"],
    [path |-> "DELETE /users/:id", guard |-> "ensureAuth", handler |-> "deleteUser"],
    [path |-> "POST /users/:id/link-course", guard |-> "ensureAuth", handler |-> "linkCourse"],
    [path |-> "POST /users/:id/link-subscriber", guard |-> "ensureAuth",
     handler |-> "linkSubscriberByEmail"],
    [path |-> "GET /dashboard", guard |-> "ensureAuthenticated", handler |-> "showDashboard"],
    [path |-> "DELETE /courses/:id", guard |-> "ensureAuthenticated",
     handler |-> "deleteCourse"] }

Guard(name, req) == IF name = "ensureAuth" THEN ensureAuth(req) ELSE ensureAuthenticated(req)

\* a request to a guarded route: the guard, then (after next()) the route's handler.
\* logout and deleteUser act on the session and the store; the other handlers are
\* recorded as having run.
UsersRoute(route, id, passportOn) ==
  LET req == GuardReq(passportOn, session, users)
      g == Guard(route.guard, req)
      ran == IF g.next = 1 THEN route.handler ELSE ""
  IN /\ ChainIdle
     /\ id \in UserIds
     /\ web' = [handler |-> "guarded", route |-> route.path, guard |-> route.guard,
                authed |-> IsAuthenticated(session, users), has |-> passportOn,
                user |-> Deserialize(session, users),
                next |-> g.next, ran |-> ran,
                flash |-> IF ran = "logout" THEN Flash("success", "You have been logged out!")
                          ELSE IF ran = "deleteUser" THEN Flash("success", "User deleted.")
                          ELSE g.flash,
                resp |-> IF ran = "logout" THEN Redirect("/")
                         ELSE IF ran = "deleteUser" THEN Redirect("/users")
                         ELSE IF ran = "" THEN g.resp
                         ELSE [status |-> OK]]
     /\ session' = IF ran = "logout" THEN NoSession ELSE session
     /\ users' = IF ran = "deleteUser" THEN [users EXCEPT ![id] = Absent] ELSE users
     /\ UNCHANGED <<offWeb, courseDocs, subscribers>>

StoreOutcomes == BOOLEAN

\* req.flash of connect-flash: it throws when the request has no session
reqFlash(reqSession, type, text) ==
  IF reqSession = None THEN [threw |-> TRUE, flash |-> None]
  ELSE [threw |-> FALSE, flash |-> Flash(type, text)]

\* req.session.destroy(fn) of express-session: req.session is deleted at once,
\* the store then removes the record or reports an error, and fn runs
SessionDestroy(sess, err) ==
  [reqSession |-> None, stored |-> IF err THEN sess ELSE NoSession]

\* logout of Lesson-22, lines 466-477: the callback of req.session.destroy
logout22(sess, err) ==
  LET d == SessionDestroy(sess, err)
      f == IF err THEN reqFlash(d.reqSession, "error", "Failed to log out.")
           ELSE reqFlash(d.reqSession, "success", "Logged out successfully.")
  IN IF f.threw
       THEN [session |-> d.stored, threw |-> TRUE, flash |-> None,
             redirect |-> "", next |-> 0]
       ELSE [session |-> d.stored, threw |-> FALSE, flash |-> f.flash,
             redirect |-> "/", next |-> 1]

\* GET /users/logout of Lesson-22, followed by redirectView
Logout22(err) ==
  LET r == logout22(session, err)
  IN /\ session' = r.session
     /\ web' = [handler |-> "logout", version |-> 22, err |-> err,
                bound |-> (session.userId # None),
                threw |-> r.threw, flash |-> r.flash, redirect |-> r.redirect,
                next |-> r.next,
                resp |-> IF r.next = 1 /\ r.redirect # "" THEN Redirect(r.redirect)
                         ELSE None]
     /\ UNCHANGED <<offWeb, dbVars>>

\* the routes that end a session or remove an account
RevokeRoutes == {r \in Routes : r.path \in {"GET /users/logout", "POST /users/:id/delete"}}

\* token holders, logins, logouts and deletions side by side
RevokeNext ==
  \/ ApiTick
  \/ \E id \in UserIds :
       apiAuthenticate(Raw(EmailOf(id), FALSE, FALSE), PasswordOf(id))
  \/ \E tk \in wire : ApiVerifyJWT(BearerOf(tk))
  \/ ApiJoin(None, "c1")
  \/ \E id \in UserIds : Login28(Raw(EmailOf(id), FALSE, FALSE), PasswordOf(id), TRUE)
  \/ \E r \in RevokeRoutes, id \in UserIds : UsersRoute(r, id, TRUE)

SessionNext ==
  \/ \E e \in EmailInputs, pw \in PasswordInputs, ok \in StoreOutcomes : Login28(e, pw, ok)
  \/ \E e \in EmailInputs, pw \in PasswordInputs, ok \in StoreOutcomes : Login23(e, pw, ok)
  \/ \E r \in Routes, id \in UserIds, on \in BOOLEAN : UsersRoute(r, id, on)
  \/ \E err \in StoreOutcomes : Logout22(err)

(***************************************************************************)
(* Accounts: createUser and updateUser on the bcrypt model (Lesson-23) and *)
(* on the passport-local-mongoose model (Lesson-28)                        *)
(***************************************************************************)
CONFLICT == 409
BcryptLen == 60
MinPassword == 6

\* password.length of a submitted text
TextLen(x) == IF "plain" \in DOMAIN x THEN Len(x.plain) ELSE BcryptLen

\* the key passport-local-mongoose derives from a password and a fresh salt
Pbkdf2(x) == [pbkdf2 |-> x]

\* the subscribers' emails (Subscriber collection)
SubscriberOf(email) == IF email \in SubscriberEmails THEN [sub |-> email] ELSE None

\* the form fields of a request body, trimmed and lower-cased as the handlers do
FormEmails == {"ada@example.com", "bob@example.com", ""}
FormFirsts == {"Ada", ""}
Form(first, email, zipCode, password) ==
  [first |-> first, last |-> "Lovelace", email |-> email, zipCode |-> zipCode,
   password |-> password]

\* bodies for the bcrypt model: zip codes of five and of four digits or none;
\* passwords that are absent, short, two plaintexts, and the text of a stored hash
Bodies23 ==
  {Form(f, e, z, pw) : f \in FormFirsts, e \in FormEmails, z \in {"", "12345", "1234"},
                       pw \in {Plain(""), Plain("abc"), Plain("secret123"),
                               Plain("hunter42"), Hash(Plain("secret123"))}}

\* /^\d{5}$/ and /^\d{4}$/ on the zip codes of the bodies
IsFiveDigits(z) == z = "12345"
isValidZaPostal(z) == z = "1234"

\* the schema validators of the bcrypt model that a save or an update runs
SchemaValid23(doc) ==
  /\ doc.name.first # "" /\ doc.name.last # ""
  /\ doc.email # ""
  /\ doc.zipCode # "" => IsFiveDigits(doc.zipCode)
  /\ TextLen(doc.password) >= MinPassword

\* another document already holds the email (unique index, error code 11000)
EmailTaken(ac, email, self) ==
  \E id \in UserIds : id # self /\ ac[id] # Absent /\ ac[id].email = email

\* userSchema.pre("save") of the bcrypt model, lines 54-64
preSave(doc, isModifiedPassword) ==
  IF ~isModifiedPassword THEN doc ELSE [doc EXCEPT !.password = Hash(@)]

Rendered(handler, status, view, errors) ==
  [handler |-> handler, status |-> status, view |-> view, errors |-> errors,
   flash |-> None]
Redirected(handler, flash, path) ==
  [handler |-> handler, status |-> FOUND, view |-> path, errors |-> {}, flash |-> flash]

\* createUser of Lesson-23, lines 45-115: the store and the response it leaves
createUser23(ac, id, body) ==
  LET errors == (IF body.first = "" THEN {"first"} ELSE {})
                \cup (IF body.last = "" THEN {"last"} ELSE {})
                \cup (IF body.email = "" THEN {"email"} ELSE {})
                \cup (IF TextLen(body.password) < MinPassword THEN {"password"} ELSE {})
                \cup (IF body.zipCode # "" /\ ~IsFiveDigits(body.zipCode)
                        THEN {"zipCode"} ELSE {})
      created == preSave([name |-> [first |-> body.first, last |-> body.last],
                          email |-> body.email, zipCode |-> body.zipCode,
                          password |-> body.password, subscriberAccount |-> None], TRUE)
      sub == SubscriberOf(body.email)
      linked == IF sub = None THEN created
                ELSE preSave([created EXCEPT !.subscriberAccount = sub], FALSE)
  IN IF errors # {}
       THEN [accounts |-> ac, resp |-> Rendered("createUser", BAD_REQUEST, "user_new", errors)]
     ELSE IF EmailTaken(ac, body.email, id)
       THEN [accounts |-> ac,
             resp |-> Redirected("createUser",
                        Flash("error", "A user with this email already exists."),
                        "/users/new")]
     ELSE [accounts |-> [ac EXCEPT ![id] = linked],
           resp |-> Redirected("createUser", Flash("success", "created successfully!"),
                               "/users")]

\* updateUser of Lesson-23, lines 146-218
updateUser23(ac, id, body) ==
  LET newPassword == body.password
      failed == Redirected("updateUser", Flash("error", "Failed to update user"), "/users")
      updated == Redirected("updateUser", Flash("success", "User updated successfully."),
                            "/users")
      conflict == Rendered("updateUser", CONFLICT, "user_edit", {"email"})
  IN IF TextLen(newPassword) > 0
       THEN IF TextLen(newPassword) < MinPassword
              THEN [accounts |-> ac,
                    resp |-> Rendered("updateUser", BAD_REQUEST, "user_edit", {"password"})]
            ELSE IF ac[id] = Absent
              THEN [accounts |-> ac,
                    resp |-> Redirected("updateUser", Flash("error", "User not found."),
                                        "/users")]
            ELSE LET userDoc == [ac[id] EXCEPT !.name.first = body.first,
                                               !.name.last = body.last,
                                               !.email = body.email,
                                               !.zipCode = body.zipCode,
                                               !.password = newPassword]
                     saved == preSave(userDoc, newPassword # ac[id].password)
                 IN IF ~SchemaValid23(userDoc) THEN [accounts |-> ac, resp |-> failed]
                    ELSE IF EmailTaken(ac, body.email, id)
                      THEN [accounts |-> ac, resp |-> conflict]
                    ELSE [accounts |-> [ac EXCEPT ![id] = saved], resp |-> updated]
     ELSE IF ac[id] = Absent THEN [accounts |-> ac, resp |-> updated]
     ELSE LET doc == [ac[id] EXCEPT !.name.first = body.first, !.name.last = body.last,
                                    !.email = body.email, !.zipCode = body.zipCode]
          IN IF ~SchemaValid23(doc) THEN [accounts |-> ac, resp |-> failed]
             ELSE IF EmailTaken(ac, body.email, id)
               THEN [accounts |-> ac, resp |-> conflict]
             ELSE [accounts |-> [ac EXCEPT ![id] = doc], resp |-> updated]

\* User.create gives the new document an _id no document has
FreeIds(ac) == {id \in UserIds : ac[id] = Absent}

CreateUser23(body) ==
  /\ FreeIds(accounts) # {}
  /\ LET id == CHOOSE i \in FreeIds(accounts) : TRUE
         r == createUser23(accounts, id, body)
     IN /\ accounts' = r.accounts
        /\ acct' = r.resp
  /\ UNCHANGED offAcct

UpdateUser23(id, body) ==
  /\ LET r == updateUser23(accounts, id, body)
     IN /\ accounts' = r.accounts
        /\ acct' = r.resp
  /\ UNCHANGED offAcct

Acct23Next ==
  \/ \E body \in Bodies23 : CreateUser23(body)
  \/ \E id \in UserIds, body \in Bodies23 : UpdateUser23(id, body)

\* the stored document of the passport-local-mongoose model for a registered id
AccountDoc28(id) ==
  [name |-> NameOf(id), email |-> EmailOf(id), zipCode |-> "1234",
   hash |-> Pbkdf2(Plain(PasswordOf(id))), subscriberAccount |-> None]

AcctInit28(registered) ==
  /\ accounts = [id \in UserIds |-> IF id \in registered THEN AccountDoc28(id) ELSE Absent]
  /\ acct = None

Bodies28 ==
  {Form(f, e, z, pw) : f \in FormFirsts, e \in FormEmails, z \in {"", "1234", "12345"},
                       pw \in {Plain(""), Plain("abc"), Plain("secret123"),
                               Plain("hunter42")}}

\* the schema validators of the Lesson-28 model that a save runs
SchemaValid28(doc) ==
  /\ doc.name.first # "" /\ doc.name.last # ""
  /\ doc.email # ""

\* createUser of Lesson-28, lines 90-148
createUser28(ac, id, body) ==
  LET errors == (IF body.first = "" THEN {"first"} ELSE {})
                \cup (IF body.last = "" THEN {"last"} ELSE {})
                \cup (IF body.email = "" THEN {"email"} ELSE {})
                \cup (IF TextLen(body.password) < MinPassword THEN {"password"} ELSE {})
                \cup (IF body.zipCode # "" /\ ~isValidZaPostal(body.zipCode)
                        THEN {"zipCode"} ELSE {})
      registered == [name |-> [first |-> body.first, last |-> body.last],
                     email |-> body.email, zipCode |-> body.zipCode,
                     hash |-> Pbkdf2(body.password),
                     subscriberAccount |-> SubscriberOf(body.email)]
  IN IF errors # {}
       THEN [accounts |-> ac, resp |-> Rendered("createUser", BAD_REQUEST, "user_new", errors)]
     ELSE IF EmailTaken(ac, body.email, id)
       THEN [accounts |-> ac,
             resp |-> Redirected("createUser",
                        Flash("error", "A user with this email already exists."),
                        "/users/new")]
     ELSE [accounts |-> [ac EXCEPT ![id] = registered],
           resp |-> Redirected("createUser", Flash("success", "created successfully!"),
                               "/users")]

\* updateUser of Lesson-28, lines 205-266
updateUser28Mut(ac, id, body) ==
  LET newPassword == body.password
  IN IF ac[id] = Absent
       THEN [accounts |-> ac,
             resp |-> Redirected("updateUser", Flash("error", "User not found."), "/users")]
     ELSE IF body.zipCode # "" /\ ~isValidZaPostal(body.zipCode)
       THEN [accounts |-> ac,
             resp |-> Rendered("updateUser", BAD_REQUEST, "user_edit", {"zipCode"})]
     ELSE LET fields == [ac[id] EXCEPT !.name.first = body.first, !.name.last = body.last,
                                       !.email = body.email, !.zipCode = body.zipCode]
              userDoc == IF TextLen(newPassword) > 0
                           THEN [fields EXCEPT !.hash = Pbkdf2(newPassword)] ELSE fields
          IN IF ~SchemaValid28(userDoc)
               THEN [accounts |-> ac,
                     resp |-> Redirected("updateUser",
                                Flash("error", "Failed to update user"), "/users")]
             ELSE IF EmailTaken(ac, body.email, id)
               THEN [accounts |-> ac,
                     resp |-> Rendered("updateUser", CONFLICT, "user_edit", {"email"})]
             ELSE [accounts |-> [ac EXCEPT ![id] = userDoc],
                   resp |-> Redirected("updateUser",
                              Flash("success", "User updated successfully."), "/users")]

updateUser28(ac, id, body) ==
  LET newPassword == body.password
  IN IF ac[id] = Absent
       THEN [accounts |-> ac,
             resp |-> Redirected("updateUser", Flash("error", "User not found."), "/users")]
     ELSE IF body.zipCode # "" /\ ~isValidZaPostal(body.zipCode)
       THEN [accounts |-> ac,
             resp |-> Rendered("updateUser", BAD_REQUEST, "user_edit", {"zipCode"})]
     ELSE IF TextLen(newPassword) > 0 /\ TextLen(newPassword) < MinPassword
       THEN [accounts |-> ac,
             resp |-> Rendered("updateUser", BAD_REQUEST, "user_edit", {"password"})]
     ELSE LET fields == [ac[id] EXCEPT !.name.first = body.first, !.name.last = body.last,
                                       !.email = body.email, !.zipCode = body.zipCode]
              userDoc == IF TextLen(newPassword) > 0
                           THEN [fields EXCEPT !.hash = Pbkdf2(newPassword)] ELSE fields
          IN IF ~SchemaValid28(userDoc)
               THEN [accounts |-> ac,
                     resp |-> Redirected("updateUser",
                                Flash("error", "Failed to update user"), "/users")]
             ELSE IF EmailTaken(ac, body.email, id)
               THEN [accounts |-> ac,
                     resp |-> Rendered("updateUser", CONFLICT, "user_edit", {"email"})]
             ELSE [accounts |-> [ac EXCEPT ![id] = userDoc],
                   resp |-> Redirected("updateUser",
                              Flash("success", "User updated successfully."), "/users")]

CreateUser28(body) ==
  /\ FreeIds(accounts) # {}
  /\ LET id == CHOOSE i \in FreeIds(accounts) : TRUE
         r == createUser28(accounts, id, body)
     IN /\ accounts' = r.accounts
        /\ acct' = r.resp
  /\ UNCHANGED offAcct

UpdateUser28(id, body) ==
  /\ LET r == updateUser28(accounts, id, body)
     IN /\ accounts' = r.accounts
        /\ acct' = r.resp
  /\ UNCHANGED offAcct

Acct28Next ==
  \/ \E body \in Bodies28 : CreateUser28(body)
  \/ \E id \in UserIds, body \in Bodies28 : UpdateUser28(id, body)

(***************************************************************************)
(* createUser when a store call rejects                                    *)
(***************************************************************************)
\* the awaited store calls of createUser's try block, one of which may reject:
\* the registration (User.register / User.create), Subscriber.findOne, and the
\* auto-link update (User.findByIdAndUpdate / user.save)
StoreFaults == {"none", "register", "findSubscriber", "link"}

\* the catch block's generic branch: Lesson-28 lines 142-146, Lesson-23 lines 109-113
CreateFailed ==
  Redirected("createUser", Flash("error", "Failed to create user account"), "/users/new")

\* createUser's try block with a rejecting store call: r is what the handler does
\* when every call resolves. What was stored before the rejecting call stays.
Catch(ac, id, r, sub, fault) ==
  IF fault = "none" \/ r.accounts = ac THEN r
  ELSE IF fault = "register" THEN [accounts |-> ac, resp |-> CreateFailed]
  ELSE IF fault = "link" /\ sub = None THEN r
  ELSE [accounts |-> [ac EXCEPT ![id] = [r.accounts[id] EXCEPT !.subscriberAccount = None]],
        resp |-> CreateFailed]

\* which user model the collection holds
ModelOf(ac) ==
  IF \E id \in UserIds : ac[id] # Absent /\ "hash" \in DOMAIN ac[id] THEN 28 ELSE 23

\* POST /users of Lesson-28, lines 90-148
CreateUser28Store(body, fault) ==
  /\ ModelOf(accounts) = 28
  /\ FreeIds(accounts) # {}
  /\ LET id == CHOOSE i \in FreeIds(accounts) : TRUE
         r == Catch(accounts, id, createUser28(accounts, id, body),
                    SubscriberOf(body.email), fault)
     IN /\ accounts' = r.accounts
        /\ acct' = r.resp
  /\ UNCHANGED offAcct

\* POST /users of Lesson-23, lines 45-115
CreateUser23Store(body, fault) ==
  /\ ModelOf(accounts) = 23
  /\ FreeIds(accounts) # {}
  /\ LET id == CHOOSE i \in FreeIds(accounts) : TRUE
         r == Catch(accounts, id, createUser23(accounts, id, body),
                    SubscriberOf(body.email), fault)
     IN /\ accounts' = r.accounts
        /\ acct' = r.resp
  /\ UNCHANGED offAcct

RegisterNext ==
  \/ \E body \in Bodies28, fault \in StoreFaults : CreateUser28Store(body, fault)
  \/ \E body \in Bodies23, fault \in StoreFaults : CreateUser23Store(body, fault)
  \/ \E id \in UserIds, body \in Bodies28 : ModelOf(accounts) = 28 /\ UpdateUser28(id, body)
  \/ \E id \in UserIds, body \in Bodies23 : ModelOf(accounts) = 23 /\ UpdateUser23(id, body)

(***************************************************************************)
(* deleteUser of Lesson-28 and of Lesson-23                                *)
(***************************************************************************)
\* the collections a handler can reach through the models it imports
Db(us) == [users |-> us, courses |-> courseDocs, subscribers |-> subscribers]

\* Model.findByIdAndDelete(id): removes the document with that _id, if there is one
findByIdAndDelete(coll, id) ==
  [x \in DOMAIN coll |-> IF x = id THEN Absent ELSE coll[x]]

\* the course ids a user document refers to
CoursesOf(doc) ==
  IF doc = Absent \/ "courses" \notin DOMAIN doc THEN {}
  ELSE {doc.courses[i] : i \in 1..Len(doc.courses)}

\* deleteUser of Lesson-28, lines 388-394; asyncHandler passes a rejection to next(err)
deleteUser28Mut(db, id, storeOk) ==
  IF ~storeOk \/ ~isValidObjectId(id)
    THEN [db |-> db, flash |-> None, redirect |-> "", next |-> "error"]
    ELSE [db |-> [db EXCEPT !.users = findByIdAndDelete(@, id),
                            !.courses = @ \ CoursesOf(db.users[id]),
                            !.subscribers = @ \ {EmailOf(id)}],
          flash |-> Flash("success", "User deleted."), redirect |-> "/users",
          next |-> "route"]

deleteUser28(db, id, storeOk) ==
  IF ~storeOk \/ ~isValidObjectId(id)
    THEN [db |-> db, flash |-> None, redirect |-> "", next |-> "error"]
    ELSE [db |-> [db EXCEPT !.users = findByIdAndDelete(@, id)],
          flash |-> Flash("success", "User deleted."), redirect |-> "/users",
          next |-> "route"]

\* deleteUser of Lesson-23, lines 221-234
deleteUser23(db, id, storeOk) ==
  IF ~storeOk \/ ~isValidObjectId(id)
    THEN [db |-> db, flash |-> Flash("error", "Failed to delete user."),
          redirect |-> "/users", next |-> "route"]
    ELSE [db |-> [db EXCEPT !.users = findByIdAndDelete(@, id)],
          flash |-> Flash("success", "User deleted."), redirect |-> "/users",
          next |-> "route"]

\* POST /users/:id/delete of Lesson-28
DeleteUser28(id, storeOk) ==
  LET r == deleteUser28(Db(users), id, storeOk)
  IN /\ ChainIdle
     /\ users' = r.db.users
     /\ courseDocs' = r.db.courses
     /\ subscribers' = r.db.subscribers
     /\ web' = [handler |-> "deleteUser", version |-> 28, id |-> id,
                existed |-> (id \in UserIds /\ users[id] # Absent),
                linked |-> (id \in UserIds /\ CoursesOf(users[id]) # {}),
                flash |-> r.flash, redirect |-> r.redirect, next |-> r.next]
     /\ UNCHANGED <<offWeb, session>>

\* POST /users/:id/delete of Lesson-23
DeleteUser23(id, storeOk) ==
  LET r == deleteUser23(Db(accounts), id, storeOk)
  IN /\ accounts' = r.db.users
     /\ courseDocs' = r.db.courses
     /\ subscribers' = r.db.subscribers
     /\ web' = [handler |-> "deleteUser", version |-> 23, id |-> id,
                existed |-> (id \in UserIds /\ accounts[id] # Absent),
                linked |-> (id \in UserIds /\ accounts[id] # Absent
                            /\ accounts[id].subscriberAccount # None),
                flash |-> r.flash, redirect |-> r.redirect, next |-> r.next]
     /\ UNCHANGED <<now, rlVars, linkVars, apiVars, session, users, acct, courseVars, modalVars>>

\* the :id parameters of the delete route
DeleteIds == UserIds \cup {InvalidId}

\* the signup forms of a subscriber and of somebody else
SignupBodies ==
  {Form("Ada", e, "12345", Plain("secret123")) : e \in FormEmails}

\* users that get linked to courses and to subscribers, and the two deleteUser
DeleteNext ==
  \/ \E id \in UserIds, c \in CourseIds : LinkCall28(1, id, c, FALSE)
  \/ LinkFindUser(1)
  \/ LinkFindCourse(1)
  \/ LinkResolve28(1)
  \/ \E body \in SignupBodies : CreateUser23(body)
  \/ \E id \in DeleteIds, ok \in StoreOutcomes : DeleteUser28(id, ok)
  \/ \E id \in DeleteIds, ok \in StoreOutcomes : DeleteUser23(id, ok)

(***************************************************************************)
(* The auth gate (enforceAuth), the routers behind it and the redirects    *)
(***************************************************************************)
\* a request path as its segments: "/users/login" is <<"users", "login">>, "/" is
\* <<>>, and a trailing slash leaves an empty last segment
Paths ==
  { <<>>, <<"dashboard">>, <<"health">>, <<"about">>, <<"nowhere">>,
    <<"users">>, <<"users", "login">>, <<"users", "new">>, <<"users", "create">>,
    <<"users", "logout">>, <<"users", "login", "">>, <<"Users", "Login">>,
    <<"errors">>, <<"errors", "404">>, <<"courses">> }
Methods == {"GET", "POST"}

\* the segments of the Location a guard redirects to
Segments(location) ==
  IF location = "/users/login" THEN <<"users", "login">>
  ELSE IF location = "/dashboard" THEN <<"dashboard">>
  ELSE <<>>

\* PUBLIC_ALLOW.some((rx) => rx.test(pathname)), lines 663-673
isPublicPath(pathname) ==
  \/ pathname = <<"users", "login">>
  \/ pathname = <<"users", "new">>
  \/ pathname = <<"users", "create">>
  \/ (Len(pathname) >= 2 /\ pathname[1] = "errors")
  \/ pathname = <<"health">>

\* enforceAuth, lines 675-680
enforceAuthMut(req, pathname) ==
  IF req.has /\ req.result THEN [next |-> 1, flash |-> None, resp |-> None]
  ELSE IF Len(pathname) >= 1 /\ pathname[1] = "users"
    THEN [next |-> 1, flash |-> None, resp |-> None]
  ELSE [next |-> 0, flash |-> None, resp |-> Redirect("/users/login")]

enforceAuth(req, pathname) ==
  IF req.has /\ req.result THEN [next |-> 1, flash |-> None, resp |-> None]
  ELSE IF isPublicPath(pathname) THEN [next |-> 1, flash |-> None, resp |-> None]
  ELSE [next |-> 0, flash |-> None, resp |-> Redirect("/users/login")]

\* ensureGuest of middlewares/auth.js, lines 11-16
ensureGuestMwMut(req) ==
  IF req.has /\ req.result
    THEN [next |-> 0, flash |-> None, resp |-> Redirect("/")]
    ELSE [next |-> 1, flash |-> None, resp |-> None]

ensureGuestMw(req) ==
  IF req.has /\ req.result
    THEN [next |-> 0, flash |-> None, resp |-> Redirect("/dashboard")]
    ELSE [next |-> 1, flash |-> None, resp |-> None]

Route(method, path, guard, handler) ==
  [method |-> method, path |-> path, guard |-> guard, handler |-> handler]

\* routes/home.js, lines 8-14
HomeRoutes ==
  { Route("GET", <<>>, "ensureGuestMw", "showLoginPage"),
    Route("GET", <<"dashboard">>, "ensureAuthenticated", "showDashboard"),
    Route("GET", <<"health">>, "none", "health"),
    Route("GET", <<"about">>, "none", "showAbout") }

\* the users router of Lesson-26-fixed, lines 14-40, mounted at /users
UsersRoutesFixed ==
  { Route("GET", <<"users", "login">>, "ensureGuestMw", "showLoginForm"),
    Route("POST", <<"users", "login">>, "ensureGuestMw", "authenticate"),
    Route("GET", <<"users", "new">>, "ensureGuestMw", "showCreateUserForm"),
    Route("POST", <<"users">>, "ensureGuestMw", "createUser"),
    Route("GET", <<"users", "logout">>, "ensureAuthenticated", "logout"),
    Route("GET", <<"users">>, "ensureAuthenticated", "showUsers") }

\* the users router of Lesson-28, lines 37-73, mounted at /users
UsersRoutes28 ==
  { Route("GET", <<"users", "login">>, "ensureGuest", "showLoginForm"),
    Route("POST", <<"users", "login">>, "ensureGuest", "authenticate"),
    Route("GET", <<"users", "new">>, "ensureGuest", "showCreateUserForm"),
    Route("POST", <<"users">>, "ensureGuest", "createUser"),
    Route("GET", <<"users", "logout">>, "ensureAuth", "logout"),
    Route("GET", <<"users">>, "ensureAuth", "showUsers") }

\* the two applications: Lesson-26-fixed mounts enforceAuth before its routers,
\* the main app mounts its routers with no gate
Apps ==
  { [name |-> "Lesson-26-fixed", gated |-> TRUE, routes |-> HomeRoutes \cup UsersRoutesFixed],
    [name |-> "main", gated |-> FALSE, routes |-> HomeRoutes \cup UsersRoutes28] }

\* Express matches routes without regard to case and to one trailing slash
LowerCase(seg) ==
  IF seg = "Users" THEN "users" ELSE IF seg = "Login" THEN "login" ELSE seg
Canon(path) ==
  LET p == IF Len(path) >= 1 /\ path[Len(path)] = ""
             THEN SubSeq(path, 1, Len(path) - 1) ELSE path
  IN [i \in 1..Len(p) |-> LowerCase(p[i])]

Match(routes, method, path) ==
  {r \in routes : r.method = method /\ r.path = Canon(path)}

RunGuard(name, req) ==
  IF name = "ensureGuestMw" THEN ensureGuestMw(req)
  ELSE IF name = "ensureGuest" THEN ensureGuest(req)
  ELSE IF name = "ensureAuth" THEN ensureAuth(req)
  ELSE IF name = "ensureAuthenticated" THEN ensureAuthenticated(req)
  ELSE [next |-> 1, flash |-> None, resp |-> None]

\* one request through the app: the gate, the router's guard, the route handler;
\* a path no route matches ends in notFound
Serve(app, sess, us, method, path) ==
  LET req == GuardReq(TRUE, sess, us)
      gate == IF app.gated THEN enforceAuth(req, path)
              ELSE [next |-> 1, flash |-> None, resp |-> None]
      found == Match(app.routes, method, path)
  IN IF gate.next = 0
       THEN [routed |-> FALSE, ran |-> "", resp |-> gate.resp]
     ELSE IF found = {}
       THEN [routed |-> TRUE, ran |-> "notFound", resp |-> [status |-> NOT_FOUND]]
     ELSE LET r == CHOOSE x \in found : TRUE
              g == RunGuard(r.guard, req)
          IN IF g.next = 0 THEN [routed |-> TRUE, ran |-> "", resp |-> g.resp]
             ELSE [routed |-> TRUE, ran |-> r.handler, resp |-> [status |-> OK]]

\* the sessions of a guest and of the logged-in user u1
ClientSessions == {NoSession, [userId |-> None, passport |-> [user |-> EmailOf("u1")]]}

\* the longest chain of redirects a client follows
MaxHops == 4

\* a client sends a request
Visit(app, sess, method, path) ==
  LET r == Serve(app, sess, users, method, path)
  IN /\ web' = [handler |-> "visit", app |-> app, sess |-> sess,
                authed |-> IsAuthenticated(sess, users),
                method |-> method, path |-> path, trail |-> <<path>>,
                routed |-> r.routed, ran |-> r.ran, resp |-> r.resp]
     /\ UNCHANGED <<offWeb, dbVars, session>>

\* the client follows the redirect it was answered with
Follow ==
  /\ web # None /\ web.handler = "visit"
  /\ web.ran = "" /\ web.resp.status = FOUND
  /\ Len(web.trail) < MaxHops
  /\ LET path == Segments(web.resp.location)
         r == Serve(web.app, web.sess, users, "GET", path)
     IN web' = [web EXCEPT !.method = "GET", !.path = path,
                           !.trail = Append(@, path),
                           !.routed = r.routed, !.ran = r.ran, !.resp = r.resp]
  /\ UNCHANGED <<offWeb, dbVars, session>>

GateNext ==
  \/ \E app \in Apps, sess \in ClientSessions, m \in Methods, path \in Paths :
       Visit(app, sess, m, path)
  \/ Follow

(***************************************************************************)
(* createCourse and the unique index on Course.title                       *)
(***************************************************************************)
CREATED == 201
DUPLICATE_KEY == 11000

\* the number of createCourse requests in flight together
MaxCreators == 2
Creators == 1..MaxCreators

\* the form fields of POST /courses: a title (maybe padded), a description, a zipCode
CourseTitles == {Raw("Bread", FALSE, FALSE), Raw("Bread", FALSE, TRUE),
                 Raw("Soup", FALSE, FALSE), Raw("", FALSE, TRUE)}
CourseBodies ==
  {[title |-> t, description |-> d, zipCode |-> z] :
     t \in CourseTitles, d \in {"", "Baking"}, z \in {"", "12345"}}

\* String(title).trim()
TrimText(raw) == [raw EXCEPT !.padded = FALSE]

CourseInit ==
  /\ catalog = <<>>
  /\ cc = [p \in Creators |-> Idle]

\* the stored courses with a title
WithTitle(coll, title) == {i \in 1..Len(coll) : coll[i].title = title}

\* Course.exists({ title })
CourseExists(coll, title) == WithTitle(coll, title) # {}

\* Course.create(doc): the unique index on title rejects a second document with
\* a stored title (E11000)
CourseCreateMut(coll, doc) == [ok |-> TRUE, coll |-> Append(coll, doc)]

CourseCreate(coll, doc) ==
  IF WithTitle(coll, doc.title) # {}
    THEN [ok |-> FALSE, code |-> DUPLICATE_KEY, coll |-> coll]
    ELSE [ok |-> TRUE, coll |-> Append(coll, doc)]

\* the answers of createCourse: JSON for clients that want it, else a flash and
\* res.locals.redirect followed by next(), or the form rendered again
CourseInvalid(json) ==
  [kind |-> "invalid", status |-> BAD_REQUEST, flash |-> None, redirect |-> "", next |-> 0]
CourseDuplicate(json, via) ==
  IF json THEN [kind |-> "duplicate", via |-> via, status |-> CONFLICT, flash |-> None,
                redirect |-> "", next |-> 0]
  ELSE [kind |-> "duplicate", via |-> via, status |-> FOUND,
        flash |-> Flash("error", "A course with this title already exists."),
        redirect |-> "/courses/new", next |-> 1]
CourseSuccess(json) ==
  IF json THEN [kind |-> "success", status |-> CREATED, flash |-> None,
                redirect |-> "", next |-> 0]
  ELSE [kind |-> "success", status |-> FOUND,
        flash |-> Flash("success", "Course created successfully!"),
        redirect |-> "/courses", next |-> 1]
CourseFailed(json) ==
  IF json THEN [kind |-> "error", status |-> INTERNAL_SERVER_ERROR, flash |-> None,
                redirect |-> "", next |-> 0]
  ELSE [kind |-> "error", status |-> FOUND,
        flash |-> Flash("error", "Failed to create course. Please try again."),
        redirect |-> "/courses/new", next |-> 1]

\* createCourse, lines 199-226: the fields are trimmed and validated, then the
\* handler awaits Course.exists
CreateCourseCall(p, body, json) ==
  LET title == TrimText(body.title)
      invalid == \/ title.text = "" \/ body.description = ""
                 \/ (body.zipCode # "" /\ ~isValidZaPostal(body.zipCode))
  IN /\ cc[p].pc = "idle"
     /\ \A q \in Creators : q < p => cc[q].pc # "idle"
     /\ cc' = [cc EXCEPT ![p] =
                 IF invalid
                   THEN [pc |-> "done", title |-> title, json |-> json,
                         out |-> CourseInvalid(json)]
                   ELSE [pc |-> "exists", title |-> title, json |-> json, out |-> None]]
     /\ UNCHANGED <<offCourse, catalog>>

\* lines 228-237: Course.exists resolves; a duplicate is reported, else the
\* handler awaits Course.create
CreateCourseExists(p) ==
  /\ cc[p].pc = "exists"
  /\ cc' = [cc EXCEPT ![p] =
              IF CourseExists(catalog, cc[p].title)
                THEN [@ EXCEPT !.pc = "done", !.out = CourseDuplicate(cc[p].json, "exists")]
                ELSE [@ EXCEPT !.pc = "create"]]
  /\ UNCHANGED <<offCourse, catalog>>

\* lines 239-273: Course.create resolves or rejects; the catch block tells the
\* duplicate key from other errors
CreateCourseCreate(p) ==
  /\ cc[p].pc = "create"
  /\ LET r == CourseCreate(catalog, [title |-> cc[p].title, by |-> p])
     IN /\ catalog' = r.coll
        /\ cc' = [cc EXCEPT ![p].pc = "done",
                            ![p].out = IF r.ok THEN CourseSuccess(cc[p].json)
                                       ELSE IF r.code = DUPLICATE_KEY
                                         THEN CourseDuplicate(cc[p].json, "index")
                                       ELSE CourseFailed(cc[p].json)]
  /\ UNCHANGED offCourse

CourseNext ==
  \/ \E p \in Creators, body \in CourseBodies, json \in BOOLEAN :
       CreateCourseCall(p, body, json)
  \/ \E p \in Creators : CreateCourseExists(p)
  \/ \E p \in Creators : CreateCourseCreate(p)

(***************************************************************************)
(* The courses modal script of the browser: loadCourses                    *)
(***************************************************************************)
\* the invocations of loadCourses a page makes
MaxLoads == 4

\* the two versions of the script: public/js/courses-modal.js of Lesson-27, and
\* the main app's, which wants a JWT in localStorage
ModalVersions == {"Lesson-27", "main"}

\* how a fetch of /api/courses settles: an HTTP status, or a network error
FetchOutcomes == {"200", "401", "500", "network error"}

ModalPage(version, jwt) ==
  [version |-> version, jwt |-> jwt, inFlight |-> FALSE, loads |-> {},
   calls |-> 0, ignored |-> FALSE, body |-> ""]

ModalInit == modal = ModalPage("Lesson-27", FALSE)

\* loadCourses up to its first await: lines 65-78 of Lesson-27, lines 288-312 of
\* the main app
loadCoursesMut(m) ==
  LET m1 == [m EXCEPT !.inFlight = TRUE, !.calls = @ + 1, !.ignored = FALSE,
                      !.body = "Loading latest courses"]
  IN IF m.version = "main" /\ ~m.jwt
       THEN [m1 EXCEPT !.body = "You are not authenticated for the API yet.",
                       !.inFlight = FALSE]
       ELSE [m1 EXCEPT !.loads = @ \cup {[id |-> m1.calls, pc |-> "fetch"]}]

loadCourses(m) ==
  IF m.inFlight THEN [m EXCEPT !.ignored = TRUE]
  ELSE LET m1 == [m EXCEPT !.inFlight = TRUE, !.calls = @ + 1, !.ignored = FALSE,
                           !.body = "Loading latest courses"]
       IN IF m.version = "main" /\ ~m.jwt
            THEN [m1 EXCEPT !.body = "You are not authenticated for the API yet.",
                            !.inFlight = FALSE]
            ELSE [m1 EXCEPT !.loads = @ \cup {[id |-> m1.calls, pc |-> "fetch"]}]

\* the end of an invocation: the try or the catch block wrote the modal body, and
\* the finally block resets inFlight
Finally(m, load, body) ==
  [m EXCEPT !.loads = @ \ {load}, !.body = body, !.inFlight = FALSE]

\* the show.bs.modal listener
ModalShow ==
  /\ modal.calls < MaxLoads
  /\ modal' = loadCourses(modal)
  /\ UNCHANGED offModal

\* the awaited fetch settles: res.ok leads on to res.json(), anything else to catch
FetchSettles(load, outcome) ==
  /\ load \in modal.loads /\ load.pc = "fetch"
  /\ modal' = IF outcome = "200"
                THEN [modal EXCEPT !.loads = (@ \ {load}) \cup {[load EXCEPT !.pc = "json"]}]
                ELSE Finally(modal, load, "Failed to load courses.")
  /\ UNCHANGED offModal

\* the awaited res.json() settles: renderCourses, or catch
JsonSettles(load, parsed) ==
  /\ load \in modal.loads /\ load.pc = "json"
  /\ modal' = Finally(modal, load,
                      IF parsed THEN "courses" ELSE "Failed to load courses.")
  /\ UNCHANGED offModal

\* the login page stores a JWT in localStorage, or it is removed
StoreJwt(present) ==
  /\ modal.version = "main" /\ modal.jwt # present
  /\ modal' = [modal EXCEPT !.jwt = present]
  /\ UNCHANGED offModal

ModalNext ==
  \/ ModalShow
  \/ \E load \in modal.loads, o \in FetchOutcomes : FetchSettles(load, o)
  \/ \E load \in modal.loads, parsed \in BOOLEAN : JsonSettles(load, parsed)
  \/ \E present \in BOOLEAN : StoreJwt(present)

(***************************************************************************)
(* The redirect-flag chains of routes/users.js (Lesson-28)                 *)
(***************************************************************************)
\* how an async handler function ends: the responses it sent itself, the value
\* it left in res.locals.redirect, its calls of next(), whether its promise rejected
Flagged(path) == [sent |-> 0, flag |-> path, nexts |-> 1, threw |-> FALSE]
RenderedOnce == [sent |-> 1, flag |-> "", nexts |-> 0, threw |-> FALSE]
Rejected == [sent |-> 0, flag |-> "", nexts |-> 0, threw |-> TRUE]

\* res.status(..).render(..) returns; res.locals.redirect = path; return next()
ExitOf(resp) == IF resp.status = FOUND THEN Flagged(resp.view) ELSE RenderedOnce

\* the awaited store calls outside a try block, one of which may reject
ChainFaults == {"none", "find", "write"}

\* updateUser, lines 205-266: findById and setPassword are awaited outside the try
updateUser28Exit(ac, id, body, fault) ==
  IF ~isValidObjectId(id) \/ fault = "find" THEN [accounts |-> ac, exit |-> Rejected]
  ELSE LET r == updateUser28(ac, id, body)
       IN IF /\ fault = "write" /\ ac[id] # Absent
             /\ (body.zipCode = "" \/ isValidZaPostal(body.zipCode))
             /\ TextLen(body.password) >= MinPassword
            THEN [accounts |-> ac, exit |-> Rejected]
            ELSE [accounts |-> r.accounts, exit |-> ExitOf(r.resp)]

\* linkCourse, lines 397-433
linkCourse28(us, courses, id, courseId, fault) ==
  IF ~isValidObjectId(id) \/ ~isValidObjectId(courseId)
    THEN [users |-> us, flash |-> Flash("error", "Invalid id."), exit |-> Flagged("/users")]
  ELSE IF fault = "find" THEN [users |-> us, flash |-> None, exit |-> Rejected]
  ELSE IF us[id] = Absent
    THEN [users |-> us, flash |-> Flash("error", "User not found."),
          exit |-> Flagged("/users")]
  ELSE IF courseId \notin courses
    THEN [users |-> us, flash |-> Flash("error", "Course not found."),
          exit |-> Flagged("/users")]
  ELSE IF fault = "write" THEN [users |-> us, flash |-> None, exit |-> Rejected]
  ELSE [users |-> FindByIdAndUpdate(us, id, courseId),
        flash |-> Flash("success", "Course linked."), exit |-> Flagged("/users")]

\* linkSubscriberByEmail, lines 436-478
linkSubscriberByEmail(ac, id, email, fault) ==
  IF ~isValidObjectId(id)
    THEN [accounts |-> ac, flash |-> Flash("error", "Invalid user id."),
          exit |-> Flagged("/users")]
  ELSE IF email = ""
    THEN [accounts |-> ac, flash |-> Flash("error", "Subscriber email is required."),
          exit |-> Flagged("/users")]
  ELSE IF fault = "find" THEN [accounts |-> ac, flash |-> None, exit |-> Rejected]
  ELSE IF ac[id] = Absent
    THEN [accounts |-> ac, flash |-> Flash("error", "User not found."),
          exit |-> Flagged("/users")]
  ELSE IF SubscriberOf(email) = None
    THEN [accounts |-> ac, flash |-> Flash("error", "Subscriber not found."),
          exit |-> Flagged("/users")]
  ELSE IF fault = "write" THEN [accounts |-> ac, flash |-> None, exit |-> Rejected]
  ELSE [accounts |-> [ac EXCEPT ![id].subscriberAccount = SubscriberOf(email)],
        flash |-> Flash("success", "Subscriber linked."), exit |-> Flagged("/users")]

\* asyncHandler, lines 22-25: Promise.resolve(fn(req, res, next)).catch(next)
asyncHandlerMut(exit) == [exit EXCEPT !.threw = FALSE] @@ [err |-> FALSE]

asyncHandler(exit) ==
  IF exit.threw THEN [exit EXCEPT !.nexts = @ + 1] @@ [err |-> TRUE]
  ELSE exit @@ [err |-> FALSE]

\* redirectView, lines 481-485
redirectView(locals) ==
  IF locals.redirect # "" THEN [sent |-> 1, nexts |-> 0] ELSE [sent |-> 0, nexts |-> 1]

\* Express runs the next non-error middleware on each next(), the error handler on
\* next(err), and the 404 handler after the router: who sent a response, in order
RunChain(handler, exit) ==
  LET e == asyncHandler(exit)
      routed == e.nexts > 0 /\ ~e.err
      rv == IF routed THEN redirectView([redirect |-> e.flag]) ELSE [sent |-> 0, nexts |-> 0]
      by == (IF e.sent > 0 THEN <<"handler">> ELSE <<>>)
            \o (IF rv.sent > 0 THEN <<"redirectView">> ELSE <<>>)
            \o (IF rv.nexts > 0 THEN <<"notFound">> ELSE <<>>)
            \o (IF e.err THEN <<"errorHandler">> ELSE <<>>)
  IN [handler |-> handler, rendered |-> e.sent, flag |-> e.flag, nexts |-> e.nexts,
      err |-> e.err, by |-> by]

chainFrame == <<now, rlVars, linkVars, apiVars, session, courseVars, modalVars>>

\* POST /users, lines 54-67 of routes/users.js
ChainCreateUser(body, fault) ==
  /\ FreeIds(accounts) # {}
  /\ LET id == CHOOSE i \in FreeIds(accounts) : TRUE
         r == Catch(accounts, id, createUser28(accounts, id, body),
                    SubscriberOf(body.email), fault)
     IN /\ accounts' = r.accounts
        /\ acct' = r.resp
        /\ web' = RunChain("createUser", ExitOf(r.resp))
  /\ UNCHANGED <<chainFrame, dbVars>>

\* PUT /users/:id, lines 83-96
ChainUpdateUser(id, body, fault) ==
  /\ LET r == updateUser28Exit(accounts, id, body, fault)
     IN /\ accounts' = r.accounts
        /\ web' = RunChain("updateUser", r.exit)
  /\ UNCHANGED <<chainFrame, dbVars, acct>>

\* POST /users/:id/delete and DELETE /users/:id, lines 99-114
ChainDeleteUser(id, storeOk) ==
  /\ LET r == deleteUser28(Db(users), id, storeOk)
     IN /\ users' = r.db.users
        /\ courseDocs' = r.db.courses
        /\ subscribers' = r.db.subscribers
        /\ web' = RunChain("deleteUser",
                           IF r.next = "error" THEN Rejected ELSE Flagged(r.redirect))
  /\ UNCHANGED <<chainFrame, acctVars>>

\* POST /users/:id/link-course, lines 121-128
ChainLinkCourse(id, courseId, fault) ==
  /\ LET r == linkCourse28(users, courseDocs, id, courseId, fault)
     IN /\ users' = r.users
        /\ web' = RunChain("linkCourse", r.exit)
  /\ UNCHANGED <<chainFrame, acctVars, courseDocs, subscribers>>

\* POST /users/:id/link-subscriber, lines 131-138
ChainLinkSubscriber(id, email, fault) ==
  /\ LET r == linkSubscriberByEmail(accounts, id, email, fault)
     IN /\ accounts' = r.accounts
        /\ web' = RunChain("linkSubscriberByEmail", r.exit)
  /\ UNCHANGED <<chainFrame, dbVars, acct>>

\* request bodies that take every branch of createUser and updateUser
ChainBodies ==
  {Form("Ada", e, z, pw) : e \in {"ada@example.com", "bob@example.com"},
                           z \in {"1234", "12345"},
                           pw \in {Plain(""), Plain("abc"), Plain("secret123")}}

ChainNext ==
  \/ \E body \in ChainBodies, fault \in StoreFaults : ChainCreateUser(body, fault)
  \/ \E id \in DeleteIds, body \in ChainBodies, fault \in ChainFaults :
       ChainUpdateUser(id, body, fault)
  \/ \E id \in DeleteIds, storeOk \in StoreOutcomes : ChainDeleteUser(id, storeOk)
  \/ \E id \in DeleteIds, c \in CourseIds \cup {InvalidId}, fault \in ChainFaults :
       ChainLinkCourse(id, c, fault)
  \/ \E id \in DeleteIds, email \in FormEmails, fault \in ChainFaults :
       ChainLinkSubscriber(id, email, fault)

(***************************************************************************)
(* Specifications                                                          *)
(***************************************************************************)
\* u1 is a registered user; u2 is a well-formed id that resolves to nothing
Init ==
  /\ now = 0 /\ RLInit /\ DBInit({"u1"}) /\ LinkInit /\ ApiInit({DefaultEnv})
  /\ WebInit /\ CourseInit /\ ModalInit /\ AcctInit({"u1"})

SpecRL == Init /\ [][RLNext]_vars

SpecLink == Init /\ [][LinkNext]_vars

SpecLinkTracked == Init /\ [][LinkTrackedNext]_vars

\* both users are registered; the environment is one of Envs
InitApi ==
  /\ now = 0 /\ RLInit /\ DBInit(UserIds) /\ LinkInit /\ ApiInit(Envs)
  /\ WebInit /\ CourseInit /\ ModalInit /\ AcctInit(UserIds)

SpecApi == InitApi /\ [][ApiNext]_vars

SpecJson == InitApi /\ [][JsonNext]_vars

SpecSession == Init /\ [][SessionNext]_vars

SpecRevoke == InitApi /\ [][RevokeNext]_vars

SpecAcct23 == Init /\ [][Acct23Next]_vars

\* the accounts are documents of the passport-local-mongoose model
InitAcct28 ==
  /\ now = 0 /\ RLInit /\ DBInit({"u1"}) /\ LinkInit /\ ApiInit({DefaultEnv})
  /\ WebInit /\ CourseInit /\ ModalInit /\ AcctInit28({"u1"})

SpecAcct28 == InitAcct28 /\ [][Acct28Next]_vars

\* both users are stored in the Lesson-28 collection, u1 in the Lesson-23 one
InitDelete ==
  /\ now = 0 /\ RLInit /\ DBInit(UserIds) /\ LinkInit /\ ApiInit({DefaultEnv})
  /\ WebInit /\ CourseInit /\ ModalInit /\ AcctInit({"u1"})

SpecDelete == InitDelete /\ [][DeleteNext]_vars

SpecGate == Init /\ [][GateNext]_vars

SpecCourse == Init /\ [][CourseNext]_vars

\* one registered user, in a collection of either user model
InitRegister ==
  /\ now = 0 /\ RLInit /\ DBInit({"u1"}) /\ LinkInit /\ ApiInit({DefaultEnv})
  /\ WebInit /\ CourseInit /\ ModalInit
  /\ (AcctInit({"u1"}) \/ AcctInit28({"u1"}))

SpecRegister == InitRegister /\ [][RegisterNext]_vars

\* the router of Lesson-28 over a store with one registered user
SpecChain == InitAcct28 /\ [][ChainNext]_vars

\* a page with either version of the script, with or without a stored JWT
InitModal ==
  /\ now = 0 /\ RLInit /\ DBInit({"u1"}) /\ LinkInit /\ ApiInit({DefaultEnv})
  /\ WebInit /\ CourseInit /\ AcctInit({"u1"})
  /\ \E v \in ModalVersions, jwt \in BOOLEAN : modal = ModalPage(v, jwt)

SpecModal == InitModal /\ [][ModalNext]_vars

(***************************************************************************)
(* Properties of the rate limiter                                          *)
(***************************************************************************)
\* C1: among the /login requests of a key that arrive within one window of the
\* request that created the key's entry, requests 1..MAX_HITS are admitted and
\* request MAX_HITS+1 is answered 429.
C1_FixedWindowAdmission ==
  [][\A ip \in IPs :
       (HandleRequest(ip, "/login") /\ now - winFirst'[ip] < WINDOW_MS) =>
         /\ winN'[ip] <= MAX_HITS => rlLast'.status # TOO_MANY_REQUESTS
         /\ winN'[ip] = MAX_HITS + 1 => rlLast'.status = TOO_MANY_REQUESTS]_vars

C1_Witness ==
  /\ rlLast # None /\ rlLast.ip = "ipA" /\ rlLast.url = "/login"
  /\ rlLast.status = TOO_MANY_REQUESTS
  /\ winN["ipA"] = MAX_HITS + 1
  /\ now - winFirst["ipA"] < WINDOW_MS

\* C2: a /login request that arrives after the key's window has elapsed since
\* the recorded start is admitted and leaves the entry {count: 1, start: now}.
C2_WindowReset ==
  [][\A ip \in IPs :
       (HandleRequest(ip, "/login") /\ ipHits[ip] # Absent
          /\ now - ipHits[ip].start > WINDOW_MS) =>
         /\ rlLast'.status # TOO_MANY_REQUESTS
         /\ ipHits'[ip] = [count |-> 1, start |-> now]]_vars

\* C3: the status of every response is the one the same request sequence gets
\* when the sweep never runs.
C3_SweepIndependence ==
  rlLast # None => rlLast.status = noSweepLast.status

(***************************************************************************)
(* Properties of the course linker                                         *)
(***************************************************************************)
LinkedMsg == "Course linked."

\* C4: a linkCourse(A, B) that finds B already in A.courses changes nothing; after
\* a successful linkCourse(A, B), B occurs in A.courses exactly once, and no
\* user's courses hold a reference twice.
C4_LinkIdempotent ==
  [][\A p \in Handlers :
       LinkResolve28(p) =>
         LET A == h[p].id
             B == h[p].courseId
         IN /\ (users[A] # Absent /\ Occ(B, users[A].courses) > 0) => users' = users
            /\ (h'[p].flash = LinkedMsg /\ users'[A] # Absent) =>
                 Occ(B, users'[A].courses) = 1
            /\ \A u \in UserIds, c \in CourseIds :
                 users'[u] # Absent => Occ(c, users'[u].courses) <= 1]_vars

C4_Witness ==
  \E p, q \in Handlers :
    /\ p # q
    /\ h[p].pc = "done" /\ h[q].pc = "done"
    /\ h[p].id = h[q].id /\ h[p].courseId = h[q].courseId
    /\ h[p].flash = LinkedMsg /\ h[q].flash = LinkedMsg
    /\ h[p].modified /\ ~h[q].modified
    /\ users[h[p].id] # Absent
    /\ Occ(h[p].courseId, users[h[p].id].courses) = 1

\* C5: when all three invocations were linkCourse(A, B) for a user A and a course
\* B that exist throughout, each reports success and A.courses holds B exactly once.
C5_ConcurrentLinkOnce ==
  \A A \in UserIds, B \in CourseIds :
    ( /\ \A p \in Handlers : h[p].pc = "done" /\ h[p].id = A /\ h[p].courseId = B
      /\ users[A] # Absent
      /\ B \in courseDocs )
    => /\ \A p \in Handlers : h[p].flash = LinkedMsg
       /\ Occ(B, users[A].courses) = 1

C5_Witness ==
  /\ peak = Cardinality(Handlers)
  /\ \A p \in Handlers : h[p].pc = "done" /\ h[p].id = "u1" /\ h[p].courseId = "c1"
                         /\ h[p].flash = LinkedMsg
  /\ users["u1"] # Absent
  /\ Occ("c1", users["u1"].courses) = 1

\* C6: a linkCourse called with well-formed ids of which one did not resolve to a
\* stored document reports 'User not found.' or 'Course not found.' and modifies
\* no document.
C6_LinkNotFound ==
  \A p \in TrackedHandlers :
    ( /\ h[p].pc = "done"
      /\ isValidObjectId(h[p].id) /\ isValidObjectId(h[p].courseId)
      /\ (~atCall[p].user \/ ~atCall[p].course) )
    => /\ h[p].flash \in {"User not found.", "Course not found."}
       /\ ~h[p].modified

(***************************************************************************)
(* Properties of the bearer guard and the join chain                       *)
(***************************************************************************)
\* C7: a join that passed the guards with a well-formed course id that resolved to
\* no Course when the request arrived is answered as not found and leaves the
\* acting user's courses unchanged.
C7_JoinNotFound ==
  ( /\ api.stage = "done" /\ api.req # None
    /\ api.req.user # None
    /\ isValidObjectId(api.req.courseId) /\ ~api.req.cAtReq )
  => /\ api.resp.status = NOT_FOUND
     /\ ~api.req.modified

\* the header is 'Bearer <token>': the scheme, one space, one credential
BearerForm(header) ==
  LET a == Trim(header)
  IN Len(a) = 3 /\ a[1] = Word("Bearer") /\ a[2] = Sp /\ a[3] # Sp

\* C8: verifyJWT calls next() once and sends nothing exactly when the header is
\* 'Bearer <token>' and the token verifies; otherwise it never calls next() and
\* answers 401 with the body {success: false, error}, error being a fixed text.
C8_BearerGuard ==
  [][\A hd \in Headers :
       ApiVerifyJWT(hd) =>
         LET vj == api'.vj
         IN IF BearerForm(hd) /\ JwtVerify(<<Trim(hd)[3]>>, Secret(env), now).ok
              THEN vj.next = 1 /\ vj.resp = None
              ELSE /\ vj.next = 0
                   /\ vj.resp.status = UNAUTHORIZED
                   /\ DOMAIN vj.resp.body = {"success", "error"}
                   /\ vj.resp.body.success = FALSE
                   /\ vj.resp.body.error \in
                        {"Missing Bearer token.", "Invalid or expired token."}
                   /\ vj.resp.body.error # Secret(env)]_vars

\* C9: a join request with a verified bearer token, no session and the id of a
\* stored course succeeds, acts for the token's subject and leaves the course in
\* that user's courses.
C9_BearerPrincipalCarried ==
  ( /\ api.stage = "done" /\ api.req # None
    /\ api.req.user = None
    /\ api.req.cAtReq )
  => /\ api.resp.status = OK
     /\ api.req.actedFor = api.vj.apiUser._id
     /\ users[api.req.actedFor] # Absent =>
          Occ(api.req.courseId, users[api.req.actedFor].courses) = 1

\* C10: the token apiAuthenticate just issued, presented at once as
\* 'Bearer <token>', passes verifyJWT, and req.apiUser holds the string form of
\* the user's _id and the user's email.
C10_TokenRoundTrip ==
  [][( /\ authLast # None /\ authLast.status = OK
       /\ now \div 1000 = authLast.body.token.body.iat
       /\ ApiVerifyJWT(<<Word("Bearer"), Sp, authLast.body.token>>) )
     => /\ api'.vj.next = 1
        /\ api'.vj.apiUser._id = StringOf(ObjectId(authLast.uid))
        /\ api'.vj.apiUser.email = EmailOf(authLast.uid)]_vars

C10_Witness ==
  /\ authLast # None /\ authLast.status = OK
  /\ wire = {authLast.body.token}
  /\ now \div 1000 = authLast.body.token.body.iat
  /\ api.stage # "none"
  /\ api.vj.next = 1
  /\ api.vj.apiUser = [_id |-> authLast.uid, email |-> EmailOf(authLast.uid)]

\* the configured lifetime L, in milliseconds
LifetimeMs(e) == SpanSeconds(ExpiresIn(e)) * 1000

\* the time t a token was issued at, as the token records it
IssuedAtMs(tk) == tk.body.iat * 1000

\* C11: a token issued at time t with the configured lifetime L passes verifyJWT
\* at every time before t+L and is answered 401 at every time after t+L; a token
\* verifyJWT rejects at one time is rejected at every later time.
C11_TokenExpiry ==
  [][\A tk \in wire :
       /\ ApiVerifyJWT(BearerOf(tk)) =>
            /\ now < IssuedAtMs(tk) + LifetimeMs(env) => api'.vj.next = 1
            /\ now > IssuedAtMs(tk) + LifetimeMs(env) =>
                 /\ api'.vj.next = 0
                 /\ api'.vj.resp.status = UNAUTHORIZED
       /\ verifyJWT(BearerOf(tk), env, now).next = 0 =>
            verifyJWT(BearerOf(tk), env', now').next = 0]_vars

C11_Witness ==
  /\ \E tk \in wire : now > IssuedAtMs(tk) + LifetimeMs(env)
  /\ \A tk \in wire : now > IssuedAtMs(tk) + LifetimeMs(env)
  /\ api.stage = "done"
  /\ api.vj.resp = Json401("Invalid or expired token.")

\* the subject's account was deleted, or the latest request logged the subject out
Revoked(sub) ==
  \/ users[sub] = Absent
  \/ web # None /\ web.handler = "guarded" /\ web.ran = "logout" /\ sub \in web.user

\* C12: a token presented before its expiry passes verifyJWT and names its subject
\* even when the subject has logged out or the subject's account has been deleted.
C12_NoRevocation ==
  [][\A tk \in wire :
       ( /\ ApiVerifyJWT(BearerOf(tk))
         /\ now < IssuedAtMs(tk) + LifetimeMs(env)
         /\ Revoked(tk.body.sub) )
       => /\ api'.vj.next = 1
          /\ api'.vj.apiUser._id = tk.body.sub]_vars

C12_Witness ==
  /\ api.stage # "none"
  /\ api.vj.next = 1
  /\ api.gone
  /\ session = NoSession

\* the one response of a failed token request
AuthFailure ==
  [status |-> UNAUTHORIZED,
   body |-> [success |-> FALSE, error |-> "Invalid email or password."]]

\* C13: apiAuthenticate with both fields given answers a request for an email
\* without account and a request with a wrong password for an existing account
\* with the same response, and it issues a token only when the account exists and
\* the password is the account's.
C13_AntiEnumeration ==
  [][\A e \in EmailInputs, pw \in PasswordInputs :
       (apiAuthenticate(e, pw) /\ e.text # "" /\ pw # "") =>
         LET exists == \E id \in UserIds : users[id] # Absent /\ EmailOf(id) = e.text
             right == \E id \in UserIds : EmailOf(id) = e.text /\ PasswordOf(id) = pw
         IN /\ ~exists => authLast' = AuthFailure
            /\ (exists /\ ~right) => authLast' = AuthFailure
            /\ (authLast'.status = OK \/ wire' # wire) => (exists /\ right)]_vars

(***************************************************************************)
(* Properties of the session logins and guards                             *)
(***************************************************************************)
\* the login handler of a version, as a function of the stores and the request
LoginOutcome(version, e, pw) ==
  IF version = 28 THEN authenticate28(users, session, e, pw, TRUE)
  ELSE authenticate23(accounts, session, e, pw, TRUE)

\* the version's store holds an account for the email, and pw is not its password
WrongPasswordFor(version, e, pw) ==
  /\ pw # ""
  /\ \E id \in UserIds :
       /\ EmailOf(id) = e.text /\ PasswordOf(id) # pw
       /\ IF version = 28 THEN users[id] # Absent ELSE accounts[id] # Absent

\* C14: the flash message and the redirect of a failed login for an email without
\* account are those of every failed login with a wrong password for an account.
C14_GenericLoginFailure ==
  ( /\ web # None /\ web.handler = "authenticate"
    /\ web.guest /\ web.attempt.complete /\ web.attempt.storeOk
    /\ ~web.attempt.exists )
  => \A e \in EmailInputs, pw \in PasswordInputs :
       WrongPasswordFor(web.version, e, pw) =>
         /\ LoginOutcome(web.version, e, pw).flash = web.flash
         /\ LoginOutcome(web.version, e, pw).resp = web.resp

\* C15: a guard either calls next() once, and only when req.isAuthenticated is
\* there and returns true, or it redirects to /users/login without calling
\* next(); the route's handler runs only for an authenticated request.
C15_SessionGuard ==
  (web # None /\ web.handler = "guarded") =>
    /\ web.next \in {0, 1}
    /\ web.next = 1 <=> (web.has /\ web.authed)
    /\ web.next = 1 => web.ran # ""
    /\ web.next = 0 => (web.ran = "" /\ web.resp = Redirect("/users/login"))
    /\ web.ran # "" => web.authed

C15_Witness ==
  /\ web # None /\ web.handler = "guarded"
  /\ web.guard = "ensureAuth" /\ web.has /\ ~web.authed
  /\ web.next = 0 /\ web.resp.status = FOUND

\* C16: a login request changes the session only when both fields were given,
\* the account exists, the password is the account's and the store answered, and
\* then it binds that account; every other login leaves the session as it was.
C16_BindOnlyOnSuccess ==
  [][\A e \in EmailInputs, pw \in PasswordInputs, ok \in StoreOutcomes :
       (Login28(e, pw, ok) \/ Login23(e, pw, ok)) =>
         LET a == web'.attempt
             success == a.complete /\ a.exists /\ a.verified /\ a.storeOk
         IN /\ ~success => session' = session
            /\ (~success /\ session = NoSession) => session' = NoSession
            /\ session' # session =>
                 /\ success
                 /\ \E id \in UserIds :
                      /\ EmailOf(id) = e.text
                      /\ \/ session'.userId = ObjectId(id)
                         \/ session'.passport = [user |-> EmailOf(id)]]_vars

C16_Witness ==
  /\ web # None /\ web.handler = "authenticate" /\ web.version = 23
  /\ web.attempt.verified
  /\ session.userId = ObjectId("u1")
  /\ session.passport = [user |-> EmailOf("u1")]

(***************************************************************************)
(* Properties of the stored credentials                                    *)
(***************************************************************************)
\* the request ended with the success flash
Succeeded(resp) == resp.status = FOUND /\ resp.flash # None /\ resp.flash.type = "success"

\* C17: on the bcrypt model, the password createUser stores is the hash of the
\* submitted password; after a successful updateUser with a new password the
\* stored password is the hash of that password; every other update leaves the
\* stored password unchanged.
C17_SingleHash ==
  [][/\ \A body \in Bodies23 :
          CreateUser23(body) =>
            \A id \in UserIds :
              (accounts[id] = Absent /\ accounts'[id] # Absent) =>
                accounts'[id].password = Hash(body.password)
     /\ \A id \in UserIds, body \in Bodies23 :
          (UpdateUser23(id, body) /\ accounts[id] # Absent) =>
            /\ accounts'[id] # Absent
            /\ IF TextLen(body.password) > 0 /\ Succeeded(acct')
                 THEN accounts'[id].password = Hash(body.password)
                 ELSE accounts'[id].password = accounts[id].password]_vars

\* a password was submitted and it has fewer than MinPassword characters
ShortPassword(body) == TextLen(body.password) > 0 /\ TextLen(body.password) < MinPassword

\* no stored credential was derived from a plaintext shorter than MinPassword
NoShortCredential(ac) ==
  \A id \in UserIds : ac[id] # Absent => TextLen(ac[id].hash.pbkdf2) >= MinPassword

SecretFields == {"hash", "salt", "password"}

\* the objects of res.locals as respondJSON serializes it
LocalsObjects(locals) ==
  {locals, locals.flashMessages, locals.session, locals.session.cookie,
   locals.session.passport, locals.currentUser}
  \cup (IF locals.currentUser = None THEN {} ELSE {locals.currentUser.name})
  \cup (IF "courses" \in DOMAIN locals THEN locals.courses ELSE {})
  \cup (IF "pagination" \in DOMAIN locals THEN {locals.pagination} ELSE {})

\* the objects of a JSON body, at every depth
JsonObjects(body) ==
  {body}
  \cup (IF "user" \in DOMAIN body THEN {body.user} ELSE {})
  \cup (IF "data" \in DOMAIN body THEN LocalsObjects(body.data) ELSE {})

\* the JSON bodies the API endpoints have sent
JsonBodies ==
  (IF authLast = None THEN {} ELSE {authLast.body})
  \cup (IF api.stage = "none" \/ api.resp = None THEN {} ELSE {api.resp.body})

\* C19: no JSON body sent by apiAuthenticate, by respondJSON or by the API's error
\* answers has a field named hash, salt or password, at any depth, whatever the
\* locals middleware and the handlers before respondJSON placed in res.locals.
C19_NoSecretInJson ==
  \A body \in JsonBodies : \A o \in JsonObjects(body) : DOMAIN o \cap SecretFields = {}

\* respondJSON has serialized the res.locals of a request with a logged-in user,
\* and apiAuthenticate has answered with a user
C19_Witness ==
  /\ authLast # None /\ authLast.status = OK
  /\ api.stage = "done" /\ api.resp.status = OK
  /\ api.resp.body.data.currentUser # None
  /\ "courses" \in DOMAIN api.resp.body.data

(***************************************************************************)
(* Properties of the signing key                                           *)
(***************************************************************************)
\* C20: while JWT_SECRET is unset the process serves no token operation:
\* apiAuthenticate has issued no token and verifyJWT has accepted none.
C20_NoKeyNoTokens ==
  env.JWT_SECRET = Unset =>
    /\ wire = {}
    /\ authLast # None => authLast.status # OK
    /\ api.stage # "none" => api.vj.next = 0

(***************************************************************************)
(* Properties of deleteUser                                                *)
(***************************************************************************)
\* the documents a deleteUser(id) call must leave as they are
OtherDocs(us, id) == [x \in DOMAIN us \ {id} |-> us[x]]

\* C21: deleteUser(id), of Lesson-28 and of Lesson-23, removes at most the User
\* document with that id: every other User document, every Course document and
\* every Subscriber document is the same before and after the call.
C21_DeleteFrame ==
  [][\A id \in DeleteIds, ok \in StoreOutcomes :
       /\ DeleteUser28(id, ok) =>
            /\ OtherDocs(users', id) = OtherDocs(users, id)
            /\ id \in UserIds => users'[id] \in {users[id], Absent}
            /\ UNCHANGED <<courseDocs, subscribers, accounts>>
       /\ DeleteUser23(id, ok) =>
            /\ OtherDocs(accounts', id) = OtherDocs(accounts, id)
            /\ id \in UserIds => accounts'[id] \in {accounts[id], Absent}
            /\ UNCHANGED <<courseDocs, subscribers, users>>]_vars

\* a user linked to a course that is still stored has just been deleted
C21_Witness ==
  /\ web # None /\ web.handler = "deleteUser" /\ web.version = 28
  /\ web.existed /\ web.linked
  /\ users[web.id] = Absent
  /\ web.flash = Flash("success", "User deleted.")

(***************************************************************************)
(* Properties of the auth gate and of the guards' redirects                *)
(***************************************************************************)
\* the paths the gate is meant to leave open: /users/login, /users/new,
\* /users/create, /errors/* and /health
PublicAllowListed(path) ==
  \/ path \in {<<"users", "login">>, <<"users", "new">>, <<"users", "create">>,
               <<"health">>}
  \/ (Len(path) >= 2 /\ Head(path) = "errors")

\* the latest request went through the app that mounts enforceAuth
GatedVisit == web # None /\ web.handler = "visit" /\ web.app.gated

C23_SignupReachable ==
  ( /\ GatedVisit /\ ~web.authed
    /\ web.method = "POST" /\ web.path = <<"users">> )
  => web.ran = "createUser"

\* does a sequence hold some element twice
HasRepeat(seq) == \E i, j \in 1..Len(seq) : i < j /\ seq[i] = seq[j]

\* the longest chain the guards of the two apps produce: the request, / and
\* /dashboard
LongestChain == 3

\* C29: with an unchanging login state, the redirects of enforceAuth,
\* ensureAuthenticated / ensureAuth and ensureGuest never lead back to a path
\* already visited, and the chain ends (a handler or notFound runs) within
\* LongestChain requests.
C29_NoRedirectLoop ==
  (web # None /\ web.handler = "visit") =>
    /\ ~HasRepeat(web.trail)
    /\ Len(web.trail) <= LongestChain
    /\ Len(web.trail) = LongestChain => web.ran # ""

\* a logged-in client asked for the login form and was led over / to the dashboard
C29_Witness ==
  /\ web # None /\ web.handler = "visit" /\ web.authed
  /\ web.trail = << <<"users", "login">>, <<>>, <<"dashboard">> >>
  /\ web.ran = "showDashboard"

(***************************************************************************)
(* Properties of the session-destroying logout                             *)
(***************************************************************************)
\* C24: after the callback of req.session.destroy has run, with or without an
\* error, logout has set the redirect to '/' and called next() once without
\* throwing, the client is redirected home and the session is bound to nobody.
C24_LogoutCompletes ==
  (web # None /\ web.handler = "logout") =>
    /\ ~web.threw
    /\ web.redirect = "/" /\ web.next = 1
    /\ web.resp = Redirect("/")
    /\ session = NoSession

(***************************************************************************)
(* Properties of linkCourse running beside deleteUser                      *)
(***************************************************************************)
\* C26: a linkCourse of Lesson-28 reports 'Course linked.' only if the user
\* document was in the store when its add-to-set update ran.
C26_LinkSuccessImpliesMutation ==
  [][\A p \in Handlers :
       (LinkResolve28(p) /\ h'[p].flash = "Course linked.")
         => users[h[p].id] # Absent]_vars

(***************************************************************************)
(* Properties of createCourse                                              *)
(***************************************************************************)
\* the requests that passed validation with a title
Requests(title) == {p \in Creators : cc[p].pc # "idle" /\ cc[p].title = title
                                     /\ (cc[p].pc = "done" => cc[p].out.kind # "invalid")}
Reported(title, kind) ==
  {p \in Requests(title) : cc[p].pc = "done" /\ cc[p].out.kind = kind}

\* C25: no title is ever stored twice, and once every createCourse request for a
\* title has finished, one Course has that title, one request reported success
\* and every other reported the duplicate title (409 or the 'already exists'
\* flash), whatever the interleaving of their exists checks and creates.
C25_UniqueTitle ==
  \A t \in {TrimText(x) : x \in CourseTitles} :
    /\ Cardinality(WithTitle(catalog, t)) <= 1
    /\ (Requests(t) # {} /\ \A p \in Requests(t) : cc[p].pc = "done") =>
         /\ Cardinality(WithTitle(catalog, t)) = 1
         /\ Cardinality(Reported(t, "success")) = 1
         /\ Requests(t) = Reported(t, "success") \cup Reported(t, "duplicate")
         /\ \A p \in Reported(t, "duplicate") :
              \/ cc[p].out.status = CONFLICT
              \/ cc[p].out.flash = Flash("error", "A course with this title already exists.")

\* two requests for one title both passed the exists check; the index stopped
\* the second create
C25_Witness ==
  \E p, q \in Creators :
    /\ p # q /\ cc[p].pc = "done" /\ cc[q].pc = "done"
    /\ cc[p].title = cc[q].title
    /\ cc[p].out.kind = "success"
    /\ cc[q].out.kind = "duplicate" /\ cc[q].out.via = "index"

(***************************************************************************)
(* Properties of the courses modal script                                  *)
(***************************************************************************)
\* can a loadCourses call of this page get as far as its fetch
CanFetch(m) == m.version = "Lesson-27" \/ m.jwt

\* C30: at most one /api/courses request of loadCourses is outstanding; when no
\* invocation is running inFlight is false, whichever way the last one ended; and
\* a modal-show event that finds no invocation running starts a new load.
C30_SingleInFlightLoad ==
  [][ /\ Cardinality(modal'.loads) <= 1
      /\ modal'.loads = {} => ~modal'.inFlight
      /\ (ModalShow /\ modal.loads = {})
           => /\ ~modal'.ignored
              /\ CanFetch(modal) => modal'.loads # {} ]_vars

\* a show event was ignored while a load was outstanding, and an earlier load has
\* already finished
C30_Witness ==
  /\ modal.ignored /\ modal.inFlight
  /\ Cardinality(modal.loads) = 1
  /\ modal.calls >= 2

(***************************************************************************)
(* Properties of a failed registration                                     *)
(***************************************************************************)
\* createUser reported failure: an error flash and the redirect to /users/new
ReportsFailure(resp) ==
  resp.status = FOUND /\ resp.view = "/users/new" /\ resp.flash.type = "error"

\* C27: a createUser that reports failure has stored no User document, also when
\* a store call after the registration step rejected.
C27_FailedRegistrationStoresNothing ==
  [][\A fault \in StoreFaults :
       /\ \A body \in Bodies28 :
            (CreateUser28Store(body, fault) /\ ReportsFailure(acct'))
              => accounts' = accounts
       /\ \A body \in Bodies23 :
            (CreateUser23Store(body, fault) /\ ReportsFailure(acct'))
              => accounts' = accounts]_vars

(***************************************************************************)
(* Properties of the redirect-flag chains                                  *)
(***************************************************************************)
\* the handler rendered and did not call next()
RendersDirectly(w) == w.rendered = 1 /\ w.nexts = 0 /\ w.by = <<"handler">>

\* the handler set res.locals.redirect and called next() once; redirectView redirected
RedirectsByFlag(w) ==
  w.rendered = 0 /\ w.flag # "" /\ w.nexts = 1 /\ ~w.err /\ w.by = <<"redirectView">>

\* the handler's promise rejected; asyncHandler called next(err) once and the
\* error handler responded
ForwardsError(w) ==
  w.rendered = 0 /\ w.flag = "" /\ w.nexts = 1 /\ w.err /\ w.by = <<"errorHandler">>

\* C28 as stated: every request to createUser, updateUser, deleteUser, linkCourse or
\* linkSubscriberByEmail gets exactly one response, either rendered by the handler
\* without next(), or redirected by redirectView after the flag and one next().
C28_RenderOrRedirectOnly ==
  web # None => /\ Len(web.by) = 1
                /\ (RendersDirectly(web) \/ RedirectsByFlag(web))

\* C28, amended: every such request gets exactly one response: rendered by the
\* handler without next(), or redirected by redirectView after the flag and one
\* next(), or, when an awaited call outside a try block rejects, sent by the error
\* handler after asyncHandler's single next(err).
C28_OneResponsePerRequest ==
  web # None => /\ Len(web.by) = 1
                /\ (RendersDirectly(web) \/ RedirectsByFlag(web) \/ ForwardsError(web))

\* a linkCourse request whose store call rejected was answered by the error handler
C28_Witness ==
  /\ web # None
  /\ web.handler = "linkCourse"
  /\ ForwardsError(web)

====
